---- MODULE Spec2Model ----
(***************************************************************************)
(* A model of the bird-research job system: the durable Queue (jobs table  *)
(* and queue-index table), the polling workers, the POST /bird and GET     *)
(* /bird handlers and the Observer's event log.                            *)
(*                                                                         *)
(* Strings are sequences of character codes (ASCII), so that the key       *)
(* encoding, its lexicographic order and its parsing are computed as the   *)
(* code computes them.  Numbers that the code keeps as floating point      *)
(* (timestamps) are records [ms, half]: ms whole milliseconds plus an      *)
(* optional half millisecond, which is how the model samples the           *)
(* non-integer values Math.random() produces in computeBackoff.            *)
(***************************************************************************)
EXTENDS Integers, Sequences, FiniteSets, TLC

VARIABLES
    jobs,        \* Queue.jobs: job id -> ResearchJob
    queueIndex,  \* Queue.queueIndex: index key -> job id
    now,         \* Date.now(), whole milliseconds
    events,      \* the Observer's table: entry -> number of copies
    alerts,      \* the alerts printed by Observer.alert, in order
    workers,     \* worker id -> [pc, job]: position in runWorker/poll, claimed job
    api,         \* the API's handlers: [pc, job, isDuplicate, status of the last response,
                 \* req: the last request]
    calls,       \* number of requests made so far (POST /bird, or direct Queue calls)
    outstanding, \* history: ids returned by claimJob and not re-enqueued since
    attempts,    \* history: job id -> processor invocations since (re)submission
    produced,    \* history: job id -> the last result processJob returned for it
    ret          \* the last direct call of a Queue or Observer operation, with its result,
                 \* or the pending pair of submitJob calls of two request handlers

vars == <<jobs, queueIndex, now, events, alerts, workers, api, calls,
          outstanding, attempts, produced, ret>>

----------------------------------------------------------------------------
(* Bounds of the model.                                                    *)

StartTime == 10
MaxTicks == 2
MaxPosts == 2
MaxCalls == 5
MaxRetryCount == 2
MaxNameLen == 3
MaxLogs == 3

(* Configuration (src/lib/config.ts). The time scale of the model is       *)
(* reduced: timestamps have TIMESTAMP_PAD_LENGTH digits, as the 13-digit   *)
(* millisecond clock has with the default width 13.                        *)

TIMESTAMP_PAD_LENGTH == 2
BASE_DELAY_MS == 1
MAX_RETRIES == 1
DEFAULT_METRICS_WINDOW_MS == 3
FAILURE_RATE_THRESHOLD_NUM == 1
FAILURE_RATE_THRESHOLD_DEN == 2

----------------------------------------------------------------------------
(* Numbers and strings.                                                    *)

Whole(n) == [ms |-> n, half |-> FALSE]
Half(n) == [ms |-> n, half |-> TRUE]

\* a > b for a number a and a whole number of milliseconds b
NumGreater(a, b) == a.ms > b \/ (a.ms = b /\ a.half)

\* a + b for a number a and a whole number of milliseconds b
NumPlus(a, b) == [ms |-> a.ms + b, half |-> a.half]

RECURSIVE Digits(_)
Digits(n) == IF n < 10 THEN <<48 + n>> ELSE Digits(n \div 10) \o <<48 + (n % 10)>>

\* String(x): "12", "12.5" or "-3"
NumberToString(x) ==
    (IF x.ms < 0 THEN <<45>> \o Digits(0 - x.ms) ELSE Digits(x.ms))
        \o (IF x.half THEN <<46, 53>> ELSE << >>)

\* s.padStart(w, "0")
padStart(s, w) ==
    IF Len(s) >= w THEN s ELSE [i \in 1..(w - Len(s)) |-> 48] \o s

\* s.slice(0, w)
slice(s, w) == SubSeq(s, 1, IF Len(s) < w THEN Len(s) ELSE w)

IsDigit(c) == c \in 48..57

RECURSIVE DigitsValue(_, _)
DigitsValue(s, acc) ==
    IF s = << >> \/ ~IsDigit(Head(s)) THEN acc
    ELSE DigitsValue(Tail(s), 10 * acc + (Head(s) - 48))

\* parseInt(s, 10): the value of the leading digits; NaN (here -1, which like
\* NaN is never greater than a clock value) when there is none
parseInt(s) ==
    IF s = << >> \/ ~IsDigit(Head(s)) THEN -1 ELSE DigitsValue(s, 0)

\* the byte order in which the store keeps its keys
RECURSIVE StrLess(_, _)
StrLess(a, b) ==
    IF b = << >> THEN FALSE
    ELSE IF a = << >> THEN TRUE
    ELSE IF Head(a) # Head(b) THEN Head(a) < Head(b)
    ELSE StrLess(Tail(a), Tail(b))

IsSpace(c) == c \in {9, 10, 11, 12, 13, 32}
IsUpper(c) == c \in 65..90

toLowerCase(s) == [i \in 1..Len(s) |-> IF IsUpper(s[i]) THEN s[i] + 32 ELSE s[i]]

RECURSIVE SkipSpaces(_)
SkipSpaces(s) ==
    IF s # << >> /\ IsSpace(Head(s)) THEN SkipSpaces(Tail(s)) ELSE s

\* s.replace(/\s+/g, "-")
RECURSIVE ReplaceSpaceRuns(_)
ReplaceSpaceRuns(s) ==
    IF s = << >> THEN << >>
    ELSE IF IsSpace(Head(s)) THEN <<45>> \o ReplaceSpaceRuns(SkipSpaces(s))
    ELSE <<Head(s)>> \o ReplaceSpaceRuns(Tail(s))

\* toJobId without the lowercasing
toJobIdKeepCase(name) == ReplaceSpaceRuns(name)

toJobId(name) == ReplaceSpaceRuns(toLowerCase(name))

indexKey(timestamp, jobId) ==
    padStart(NumberToString(timestamp), TIMESTAMP_PAD_LENGTH) \o <<45>> \o jobId

----------------------------------------------------------------------------
(* The store's tables: functions from keys to values.                      *)

EmptyTable == << >>

Put(T, k, v) == [x \in (DOMAIN T) \cup {k} |-> IF x = k THEN v ELSE T[x]]

Remove(T, k) == [x \in (DOMAIN T) \ {k} |-> T[x]]

\* the first key of getRange({ limit: 1 })
LeastKey(T) ==
    CHOOSE k \in DOMAIN T : \A k2 \in DOMAIN T : k2 = k \/ StrLess(k, k2)

Undefined == [undefined |-> TRUE]
EmptyBody == "{}"

----------------------------------------------------------------------------
(* Queue. Each operation is a function of the tables and the clock to the  *)
(* new tables and the returned value.                                      *)

\* submitJob that resets a completed record as it resets a failed one
submitJobResetsCompleted(J, Q, name, t) ==
    LET jobId == toJobId(name) IN
    IF jobId \in DOMAIN J
    THEN IF J[jobId].status \in {"failed", "completed"}
         THEN LET resetJob == [J[jobId] EXCEPT
                                  !.createdAt = t,
                                  !.availableForProcessingAt = Whole(t),
                                  !.retryCount = 0,
                                  !.status = "queued",
                                  !.body = EmptyBody]
              IN [jobs |-> Put(J, jobId, resetJob),
                  queueIndex |-> Put(Q, indexKey(Whole(t), jobId), jobId),
                  job |-> resetJob, isDuplicate |-> FALSE]
         ELSE [jobs |-> J, queueIndex |-> Q, job |-> J[jobId], isDuplicate |-> TRUE]
    ELSE LET job == [id |-> jobId, name |-> name, createdAt |-> t,
                     availableForProcessingAt |-> Whole(t), retryCount |-> 0,
                     status |-> "queued", body |-> EmptyBody]
         IN [jobs |-> Put(J, jobId, job),
             queueIndex |-> Put(Q, indexKey(Whole(t), jobId), jobId),
             job |-> job, isDuplicate |-> FALSE]

submitJob(J, Q, name, t) ==
    LET jobId == toJobId(name) IN
    IF jobId \in DOMAIN J
    THEN IF J[jobId].status = "failed"
         THEN LET resetJob == [J[jobId] EXCEPT
                                  !.createdAt = t,
                                  !.availableForProcessingAt = Whole(t),
                                  !.retryCount = 0,
                                  !.status = "queued",
                                  !.body = EmptyBody]
              IN [jobs |-> Put(J, jobId, resetJob),
                  queueIndex |-> Put(Q, indexKey(Whole(t), jobId), jobId),
                  job |-> resetJob, isDuplicate |-> FALSE]
         ELSE [jobs |-> J, queueIndex |-> Q, job |-> J[jobId], isDuplicate |-> TRUE]
    ELSE LET job == [id |-> jobId, name |-> name, createdAt |-> t,
                     availableForProcessingAt |-> Whole(t), retryCount |-> 0,
                     status |-> "queued", body |-> EmptyBody]
         IN [jobs |-> Put(J, jobId, job),
             queueIndex |-> Put(Q, indexKey(Whole(t), jobId), jobId),
             job |-> job, isDuplicate |-> FALSE]

\* The writes of a transaction: puts and removes on the two tables.
PutJob(jobId, job) == [table |-> "jobs", op |-> "put", key |-> jobId, value |-> job]
PutIndex(key, jobId) == [table |-> "queueIndex", op |-> "put", key |-> key, value |-> jobId]
RemoveIndex(key) == [table |-> "queueIndex", op |-> "remove", key |-> key]

\* putSync or removeSync on the tables st
ApplyWrite(st, w) ==
    IF w.table = "jobs"
    THEN [st EXCEPT !.jobs = Put(@, w.key, w.value)]
    ELSE IF w.op = "put"
    THEN [st EXCEPT !.queueIndex = Put(@, w.key, w.value)]
    ELSE [st EXCEPT !.queueIndex = Remove(@, w.key)]

RECURSIVE ApplyWrites(_, _)
ApplyWrites(st, writes) ==
    IF writes = << >> THEN st
    ELSE ApplyWrites(ApplyWrite(st, Head(writes)), Tail(writes))

\* a transaction that keeps the writes made before the store error
transactionSyncKeepsWrites(J, Q, writes, failAt) ==
    LET st == [jobs |-> J, queueIndex |-> Q] IN
    IF failAt = 0
    THEN [jobs |-> ApplyWrites(st, writes).jobs,
          queueIndex |-> ApplyWrites(st, writes).queueIndex, error |-> FALSE]
    ELSE [jobs |-> ApplyWrites(st, SubSeq(writes, 1, failAt - 1)).jobs,
          queueIndex |-> ApplyWrites(st, SubSeq(writes, 1, failAt - 1)).queueIndex,
          error |-> TRUE]

\* jobs.transactionSync(callback) with a callback that makes these writes:
\* without a store error (failAt = 0) all of them are committed; when the
\* failAt-th write throws, or the commit does (failAt = Len(writes) + 1), the
\* transaction is aborted, the tables are as before and the error is thrown
\* to the caller
transactionSync(J, Q, writes, failAt) ==
    LET st == [jobs |-> J, queueIndex |-> Q] IN
    IF failAt = 0
    THEN [jobs |-> ApplyWrites(st, writes).jobs,
          queueIndex |-> ApplyWrites(st, writes).queueIndex, error |-> FALSE]
    ELSE [jobs |-> J, queueIndex |-> Q, error |-> TRUE]

\* the writes of the transaction of submitJob; a duplicate has no transaction
submitJobWrites(J, Q, name, t) ==
    LET jobId == toJobId(name) IN
    IF jobId \in DOMAIN J /\ J[jobId].status # "failed" THEN << >>
    ELSE LET job == IF jobId \in DOMAIN J
                    THEN [J[jobId] EXCEPT
                             !.createdAt = t,
                             !.availableForProcessingAt = Whole(t),
                             !.retryCount = 0,
                             !.status = "queued",
                             !.body = EmptyBody]
                    ELSE [id |-> jobId, name |-> name, createdAt |-> t,
                          availableForProcessingAt |-> Whole(t), retryCount |-> 0,
                          status |-> "queued", body |-> EmptyBody]
         IN <<PutJob(jobId, job), PutIndex(indexKey(Whole(t), jobId), jobId)>>

\* the writes of the transaction of claimJob
claimJobWrites(J, Q, t) ==
    IF DOMAIN Q = {} THEN << >>
    ELSE LET key == LeastKey(Q)
             value == Q[key]
             timestamp == parseInt(slice(key, TIMESTAMP_PAD_LENGTH))
         IN IF timestamp > t THEN << >>
            ELSE IF value \notin DOMAIN J THEN <<RemoveIndex(key)>>
            ELSE <<RemoveIndex(key),
                   PutJob(J[value].id, [J[value] EXCEPT !.status = "processing"])>>

\* the writes of the transaction of retryJob, for an existing job
retryJobWrites(J, Q, jobId, nextAvailableAt) ==
    <<PutJob(jobId, [J[jobId] EXCEPT
                        !.status = "queued",
                        !.retryCount = @ + 1,
                        !.availableForProcessingAt = nextAvailableAt]),
      PutIndex(indexKey(nextAvailableAt, jobId), jobId)>>

\* claimJob that leaves the head entry in the index
claimJobKeepsEntry(J, Q, t) ==
    IF DOMAIN Q = {} THEN [jobs |-> J, queueIndex |-> Q, claimed |-> Undefined]
    ELSE LET key == LeastKey(Q)
             value == Q[key]
             timestamp == parseInt(slice(key, TIMESTAMP_PAD_LENGTH))
         IN IF timestamp > t
            THEN [jobs |-> J, queueIndex |-> Q, claimed |-> Undefined]
            ELSE IF value \notin DOMAIN J
            THEN [jobs |-> J, queueIndex |-> Remove(Q, key), claimed |-> Undefined]
            ELSE LET updated == [J[value] EXCEPT !.status = "processing"]
                 IN [jobs |-> Put(J, J[value].id, updated),
                     queueIndex |-> Q,
                     claimed |-> updated]

claimJob(J, Q, t) ==
    IF DOMAIN Q = {} THEN [jobs |-> J, queueIndex |-> Q, claimed |-> Undefined]
    ELSE LET key == LeastKey(Q)
             value == Q[key]
             timestamp == parseInt(slice(key, TIMESTAMP_PAD_LENGTH))
         IN IF timestamp > t
            THEN [jobs |-> J, queueIndex |-> Q, claimed |-> Undefined]
            ELSE IF value \notin DOMAIN J
            THEN [jobs |-> J, queueIndex |-> Remove(Q, key), claimed |-> Undefined]
            ELSE LET updated == [J[value] EXCEPT !.status = "processing"]
                 IN [jobs |-> Put(J, J[value].id, updated),
                     queueIndex |-> Remove(Q, key),
                     claimed |-> updated]

getJob(J, jobId) == IF jobId \in DOMAIN J THEN J[jobId] ELSE Undefined

\* completeJob that sets the status and leaves the body
completeJobKeepsBody(J, jobId, body) ==
    IF jobId \notin DOMAIN J THEN [jobs |-> J, job |-> Undefined]
    ELSE LET updated == [J[jobId] EXCEPT !.status = "completed"]
         IN [jobs |-> Put(J, jobId, updated), job |-> updated]

completeJob(J, jobId, body) ==
    IF jobId \notin DOMAIN J THEN [jobs |-> J, job |-> Undefined]
    ELSE LET updated == [J[jobId] EXCEPT !.status = "completed", !.body = body]
         IN [jobs |-> Put(J, jobId, updated), job |-> updated]

\* retryJob that writes the job record and no index entry
retryJobNoIndex(J, Q, jobId, nextAvailableAt) ==
    IF jobId \notin DOMAIN J THEN [jobs |-> J, queueIndex |-> Q, job |-> Undefined]
    ELSE LET updated == [J[jobId] EXCEPT
                            !.status = "queued",
                            !.retryCount = @ + 1,
                            !.availableForProcessingAt = nextAvailableAt]
         IN [jobs |-> Put(J, jobId, updated), queueIndex |-> Q, job |-> updated]

\* retryJob that re-enqueues the job without counting the retry
retryJobKeepsCount(J, Q, jobId, nextAvailableAt) ==
    IF jobId \notin DOMAIN J THEN [jobs |-> J, queueIndex |-> Q, job |-> Undefined]
    ELSE LET updated == [J[jobId] EXCEPT
                            !.status = "queued",
                            !.availableForProcessingAt = nextAvailableAt]
         IN [jobs |-> Put(J, jobId, updated),
             queueIndex |-> Put(Q, indexKey(nextAvailableAt, jobId), jobId),
             job |-> updated]

retryJob(J, Q, jobId, nextAvailableAt) ==
    IF jobId \notin DOMAIN J THEN [jobs |-> J, queueIndex |-> Q, job |-> Undefined]
    ELSE LET updated == [J[jobId] EXCEPT
                            !.status = "queued",
                            !.retryCount = J[jobId].retryCount + 1,
                            !.availableForProcessingAt = nextAvailableAt]
         IN [jobs |-> Put(J, jobId, updated),
             queueIndex |-> Put(Q, indexKey(nextAvailableAt, jobId), jobId),
             job |-> updated]

failJob(J, jobId) ==
    IF jobId \notin DOMAIN J THEN [jobs |-> J, job |-> Undefined]
    ELSE LET updated == [J[jobId] EXCEPT !.status = "failed"]
         IN [jobs |-> Put(J, jobId, updated), job |-> updated]

----------------------------------------------------------------------------
(* Observer. The events table holds each entry at the key                  *)
(* pad(timestamp) "-" uuid: its order is the order of the timestamps, and  *)
(* among the entries of one millisecond the order of their random uuids.   *)
(* The model keeps the table as the bag of its entries (entry -> number of *)
(* copies, a copy being an entry that differs in its uuid only).           *)

AddEntry(B, entry) ==
    IF entry \in DOMAIN B THEN [B EXCEPT ![entry] = @ + 1] ELSE Put(B, entry, 1)

\* the key of an entry up to its uuid: pad(timestamp) and "-"
entryKey(entry) ==
    padStart(NumberToString(Whole(entry.timestamp)), TIMESTAMP_PAD_LENGTH) \o <<45>>

HasJobId(entry) == "jobId" \in DOMAIN entry.body /\ entry.body.jobId # << >>

RECURSIVE SumOver(_, _)
SumOver(f, S) ==
    IF S = {} THEN 0
    ELSE LET x == CHOOSE y \in S : TRUE IN f[x] + SumOver(f, S \ {x})

\* the number of entries of B among the entries S with this action
CountAction(B, S, action) == SumOver(B, {e \in S : e.action = action})

\* the time of the first entry of the scan, as if the Map kept its first value
EarliestTime(S, action, jobId) ==
    LET T == {e.timestamp : e \in {x \in S : x.action = action /\ HasJobId(x)
                                             /\ x.body.jobId = jobId}}
    IN IF T = {} THEN -1 ELSE CHOOSE t \in T : \A u \in T : t <= u

\* what the scan leaves in claimedTimes/completedTimes for a job: the timestamp
\* of the last entry in key order, the greatest one; -1 if there is none
LastTime(S, action, jobId) ==
    LET T == {e.timestamp : e \in {x \in S : x.action = action /\ HasJobId(x)
                                             /\ x.body.jobId = jobId}}
    IN IF T = {} THEN -1 ELSE CHOOSE t \in T : \A u \in T : u <= t

\* a scan that starts one millisecond after now - windowMs
windowScanAfterStart(B, t, windowMs) ==
    LET windowStart == t - windowMs + 1
        startKey == padStart(NumberToString(Whole(windowStart)), TIMESTAMP_PAD_LENGTH)
    IN {e \in DOMAIN B : ~StrLess(entryKey(e), startKey)}

\* the entries getRange({ start: startKey }) yields: those whose key is not
\* below the key prefix of now - windowMs
windowScan(B, t, windowMs) ==
    LET windowStart == t - windowMs
        startKey == padStart(NumberToString(Whole(windowStart)), TIMESTAMP_PAD_LENGTH)
    IN {e \in DOMAIN B : ~StrLess(entryKey(e), startKey)}

\* getMetrics with the failure rate taken over the submitted jobs
getMetricsOverSubmitted(B, t, windowMs) ==
    LET scan == windowScan(B, t, windowMs)
        submitted == CountAction(B, scan, "job-submitted")
        completed == CountAction(B, scan, "job-completed")
        failed == CountAction(B, scan, "job-failed")
        total == completed + failed
        ids == {e.body.jobId : e \in {x \in scan : HasJobId(x)}}
        paired == {id \in ids : LastTime(scan, "job-completed", id) # -1
                                /\ LastTime(scan, "job-claimed", id) # -1}
        times == [id \in paired |-> LastTime(scan, "job-completed", id)
                                    - LastTime(scan, "job-claimed", id)]
    IN [submitted |-> submitted, completed |-> completed, failed |-> failed,
        failureRate |-> IF submitted = 0 THEN [num |-> 0, den |-> 1]
                        ELSE [num |-> failed, den |-> submitted],
        avgProcessingTimeMs |-> IF paired = {} THEN Undefined
                                ELSE [sum |-> SumOver(times, paired),
                                      count |-> Cardinality(paired)]]

\* failureRate is the fraction failed / total (0 when total = 0); the mean
\* avgProcessingTimeMs is the fraction sum / count, or Undefined for null
getMetrics(B, t, windowMs) ==
    LET scan == windowScan(B, t, windowMs)
        submitted == CountAction(B, scan, "job-submitted")
        completed == CountAction(B, scan, "job-completed")
        failed == CountAction(B, scan, "job-failed")
        total == completed + failed
        ids == {e.body.jobId : e \in {x \in scan : HasJobId(x)}}
        paired == {id \in ids : LastTime(scan, "job-completed", id) # -1
                                /\ LastTime(scan, "job-claimed", id) # -1}
        times == [id \in paired |-> LastTime(scan, "job-completed", id)
                                    - LastTime(scan, "job-claimed", id)]
    IN [submitted |-> submitted, completed |-> completed, failed |-> failed,
        failureRate |-> IF total = 0 THEN [num |-> 0, den |-> 1]
                        ELSE [num |-> failed, den |-> total],
        avgProcessingTimeMs |-> IF paired = {} THEN Undefined
                                ELSE [sum |-> SumOver(times, paired),
                                      count |-> Cardinality(paired)]]

\* checkFailureRate that alerts from the threshold on, '>=' for '>'
checkFailureRateAtLeast(B, A, t) ==
    LET metrics == getMetrics(B, t, DEFAULT_METRICS_WINDOW_MS) IN
    IF metrics.failureRate.num * FAILURE_RATE_THRESHOLD_DEN
         >= FAILURE_RATE_THRESHOLD_NUM * metrics.failureRate.den
    THEN Append(A, [failed |-> metrics.failed,
                    total |-> metrics.completed + metrics.failed])
    ELSE A

\* checkFailureRate and alert: the alerts after the check
checkFailureRate(B, A, t) ==
    LET metrics == getMetrics(B, t, DEFAULT_METRICS_WINDOW_MS) IN
    IF metrics.failureRate.num * FAILURE_RATE_THRESHOLD_DEN
         > FAILURE_RATE_THRESHOLD_NUM * metrics.failureRate.den
    THEN Append(A, [failed |-> metrics.failed,
                    total |-> metrics.completed + metrics.failed])
    ELSE A

log(B, A, t, action, type, body) ==
    LET entry == [timestamp |-> t, type |-> type, action |-> action, body |-> body]
        written == AddEntry(B, entry)
    IN [events |-> written,
        alerts |-> IF action = "job-failed" THEN checkFailureRate(written, A, t) ELSE A]

\* the entries getTrace(jobId) returns, as a set
traceEntries(B, jobId) ==
    {e \in DOMAIN B : "jobId" \in DOMAIN e.body /\ e.body.jobId = jobId}

\* the table without one copy of an entry
TakeOne(B, entry) ==
    IF B[entry] > 1 THEN [B EXCEPT ![entry] = @ - 1] ELSE Remove(B, entry)

\* the orders in which a scan of the table (getRange) can meet its entries:
\* ascending keys, the entries of one timestamp in the order of their uuids,
\* which crypto.randomUUID() makes any order
RECURSIVE KeyOrders(_)
KeyOrders(B) ==
    IF DOMAIN B = {} THEN {<< >>}
    ELSE LET first == {e \in DOMAIN B :
                          \A x \in DOMAIN B : ~StrLess(entryKey(x), entryKey(e))}
         IN UNION {{<<e>> \o k : k \in KeyOrders(TakeOne(B, e))} : e \in first}

\* results.sort((a, b) => a.timestamp - b.timestamp): a stable sort
RECURSIVE InsertByTimestamp(_, _)
InsertByTimestamp(s, e) ==
    IF s = << >> \/ s[Len(s)].timestamp <= e.timestamp THEN Append(s, e)
    ELSE Append(InsertByTimestamp(SubSeq(s, 1, Len(s) - 1), e), s[Len(s)])

RECURSIVE sortByTimestamp(_)
sortByTimestamp(s) ==
    IF s = << >> THEN << >>
    ELSE InsertByTimestamp(sortByTimestamp(SubSeq(s, 1, Len(s) - 1)), s[Len(s)])

\* getTrace without its filter: the whole scan, sorted
getTraceUnfiltered(scanned, jobId) == sortByTimestamp(scanned)

\* getTrace(jobId) when the scan meets the entries in the order scanned
getTrace(scanned, jobId) ==
    LET Matches(e) == "jobId" \in DOMAIN e.body /\ e.body.jobId = jobId
    IN sortByTimestamp(SelectSeq(scanned, Matches))

\* what getTrace(jobId) can return. The entries of other jobs are left out of
\* the scan here: getTrace drops them, whatever their place in it.
getTraceResults(B, jobId) ==
    LET own == traceEntries(B, jobId)
    IN {getTrace(k, jobId) : k \in KeyOrders([e \in own |-> B[e]])}

----------------------------------------------------------------------------
(* Worker.                                                                 *)

\* 2^n
RECURSIVE Pow2(_)
Pow2(n) == IF n = 0 THEN 1 ELSE 2 * Pow2(n - 1)

\* the values Math.random() * BASE_DELAY_MS takes in the model
Jitters == {Whole(k) : k \in 0..(BASE_DELAY_MS - 1)}
               \cup {Half(k) : k \in 0..(BASE_DELAY_MS - 1)}

\* computeBackoff that returns the delay, not the time at which it ends
computeBackoffDelayOnly(retryCount, t, jitter) ==
    NumPlus(jitter, Pow2(retryCount + 1) * BASE_DELAY_MS)

\* computeBackoff with a delay that grows linearly in the retry count
computeBackoffLinear(retryCount, t, jitter) ==
    NumPlus(jitter, t + 2 * (retryCount + 1) * BASE_DELAY_MS)

computeBackoff(retryCount, t, jitter) ==
    NumPlus(jitter, t + Pow2(retryCount + 1) * BASE_DELAY_MS)

\* the test of the catch branch, with '>' for '>='
retriesExhaustedStrict(job) == job.retryCount > MAX_RETRIES

\* the test of the catch branch, one retry short
retriesExhaustedEarly(job) == job.retryCount + 1 >= MAX_RETRIES

\* the test of the catch branch: job.retryCount >= CONFIG.MAX_RETRIES
retriesExhausted(job) == job.retryCount >= MAX_RETRIES

----------------------------------------------------------------------------
(* Inputs.                                                                 *)

\* "A b", "a \tb" (both canonicalise to "a-b") and "c"
Names == {<<65, 32, 98>>, <<97, 32, 9, 98>>, <<99>>}

\* the ids callers pass to the Queue: an id is missing until it is submitted
JobIds == {toJobId(n) : n \in Names}

\* the bodies of POST /bird: a name, the empty name, no name, a number as name
RequestBodies ==
    {[kind |-> "string", name |-> n] : n \in Names \cup {<< >>}}
        \cup {[kind |-> "missing", name |-> << >>], [kind |-> "number", name |-> << >>]}

\* the results of the external processor
Results == {"r1", "r2"}

WorkerIds == {"w1", "w2"}

IdleWorker == [pc |-> "start", job |-> Undefined]
\* the API between requests; req is the body of the last POST /bird request
IdleApi == [pc |-> "idle", job |-> Undefined, isDuplicate |-> FALSE, status |-> 0,
            req |-> Undefined]

Init ==
    /\ jobs = EmptyTable
    /\ queueIndex = EmptyTable
    /\ now = StartTime
    /\ events = EmptyTable
    /\ alerts = << >>
    /\ workers = [w \in WorkerIds |-> IdleWorker]
    /\ api = IdleApi
    /\ calls = 0
    /\ outstanding = {}
    /\ attempts = EmptyTable
    /\ produced = EmptyTable
    /\ ret = [op |-> "init"]

\* the clock advances by one millisecond
Tick ==
    /\ now < StartTime + MaxTicks
    /\ now' = now + 1
    /\ UNCHANGED <<jobs, queueIndex, events, alerts, workers, api, calls,
                   outstanding, attempts, produced, ret>>

----------------------------------------------------------------------------
(* The Queue driven directly: its public operations in any order, with any *)
(* job id.                                                                 *)

QueueFrame ==
    /\ calls < MaxCalls
    /\ calls' = calls + 1
    /\ UNCHANGED <<events, alerts, workers, api, produced>>

\* the clock advances between two calls
QTick ==
    /\ now < StartTime + MaxTicks
    /\ now' = now + 1
    /\ ret' = [op |-> "tick"]
    /\ UNCHANGED <<jobs, queueIndex, events, alerts, workers, api, calls,
                   outstanding, attempts, produced>>

QSubmitJob(name) ==
    LET r == submitJob(jobs, queueIndex, name, now) IN
    /\ jobs' = r.jobs
    /\ queueIndex' = r.queueIndex
    /\ outstanding' = IF r.isDuplicate THEN outstanding ELSE outstanding \ {r.job.id}
    /\ attempts' = IF r.isDuplicate THEN attempts ELSE Put(attempts, r.job.id, 0)
    /\ ret' = [op |-> "submit", name |-> name, job |-> r.job,
               isDuplicate |-> r.isDuplicate]
    /\ now' = now
    /\ QueueFrame

QClaimJob ==
    LET r == claimJob(jobs, queueIndex, now) IN
    /\ jobs' = r.jobs
    /\ queueIndex' = r.queueIndex
    /\ outstanding' = IF r.claimed = Undefined THEN outstanding
                      ELSE outstanding \cup {r.claimed.id}
    /\ ret' = [op |-> "claim", job |-> r.claimed,
               again |-> r.claimed # Undefined /\ r.claimed.id \in outstanding]
    /\ UNCHANGED <<now, attempts>>
    /\ QueueFrame

QCompleteJob(jobId, body) ==
    LET r == completeJob(jobs, jobId, body) IN
    /\ jobs' = r.jobs
    /\ ret' = [op |-> "complete", id |-> jobId, job |-> r.job]
    /\ UNCHANGED <<queueIndex, now, outstanding, attempts>>
    /\ QueueFrame

QRetryJob(jobId, nextAvailableAt) ==
    LET r == retryJob(jobs, queueIndex, jobId, nextAvailableAt) IN
    /\ jobId \in DOMAIN jobs => jobs[jobId].retryCount < MaxRetryCount
    /\ jobs' = r.jobs
    /\ queueIndex' = r.queueIndex
    /\ outstanding' = outstanding \ {jobId}
    /\ ret' = [op |-> "retry", id |-> jobId, next |-> nextAvailableAt, job |-> r.job]
    /\ UNCHANGED <<now, attempts>>
    /\ QueueFrame

QFailJob(jobId) ==
    LET r == failJob(jobs, jobId) IN
    /\ jobs' = r.jobs
    /\ ret' = [op |-> "fail", id |-> jobId, job |-> r.job]
    /\ UNCHANGED <<queueIndex, now, outstanding, attempts>>
    /\ QueueFrame

\* the times a caller passes to retryJob: the present, a time within the
\* present millisecond, and the future
RetryTimes == {Whole(now), Half(now), Whole(now + 1)}

QueueNext ==
    \/ QTick
    \/ \E name \in Names : QSubmitJob(name)
    \/ QClaimJob
    \/ \E jobId \in JobIds, body \in Results : QCompleteJob(jobId, body)
    \/ \E jobId \in JobIds, t \in RetryTimes : QRetryJob(jobId, t)
    \/ \E jobId \in JobIds : QFailJob(jobId)

QueueSpec == Init /\ [][QueueNext]_vars

----------------------------------------------------------------------------
(* The Queue over a store that can fail: QueueSpec and the calls in which  *)
(* a write of the transaction, or its commit, throws.                      *)

\* a call whose transaction fails at its failAt-th step: the error reaches
\* the caller
TxFails(of, writes, failAt) ==
    LET r == transactionSync(jobs, queueIndex, writes, failAt) IN
    /\ failAt \in 1..(Len(writes) + 1)
    /\ jobs' = r.jobs
    /\ queueIndex' = r.queueIndex
    /\ ret' = [op |-> "error", of |-> of, failAt |-> failAt, error |-> r.error]
    /\ UNCHANGED <<now, outstanding, attempts>>
    /\ QueueFrame

QSubmitJobFails(name, failAt) ==
    /\ submitJobWrites(jobs, queueIndex, name, now) # << >>
    /\ TxFails("submit", submitJobWrites(jobs, queueIndex, name, now), failAt)

QClaimJobFails(failAt) ==
    TxFails("claim", claimJobWrites(jobs, queueIndex, now), failAt)

QRetryJobFails(jobId, nextAvailableAt, failAt) ==
    /\ jobId \in DOMAIN jobs
    /\ TxFails("retry", retryJobWrites(jobs, queueIndex, jobId, nextAvailableAt), failAt)

\* the steps at which a transaction of the Queue can fail: its first write,
\* its second write, its commit
FailPoints == 1..3

StoreFaultNext ==
    \/ QueueNext
    \/ \E name \in Names, failAt \in FailPoints : QSubmitJobFails(name, failAt)
    \/ \E failAt \in FailPoints : QClaimJobFails(failAt)
    \/ \E jobId \in JobIds, t \in RetryTimes, failAt \in FailPoints :
           QRetryJobFails(jobId, t, failAt)

StoreFaultSpec == Init /\ [][StoreFaultNext]_vars

----------------------------------------------------------------------------
(* claimJob on any tables: the index may hold entries of missing jobs      *)
(* (orphans), entries in the future and entries of jobs that are not       *)
(* queued; claimJob is called any number of times as the clock advances.   *)

\* the timestamps of the index entries the tables start with
IndexTimes == StartTime..(StartTime + 1)

\* the job records the tables start with
StoredJob(id, status) ==
    [id |-> id, name |-> id, createdAt |-> StartTime,
     availableForProcessingAt |-> Whole(StartTime), retryCount |-> 0,
     status |-> status, body |-> EmptyBody]

ClaimInit ==
    /\ \E S \in SUBSET JobIds :
       \E st \in [S -> {"queued", "completed"}] :
           jobs = [id \in S |-> StoredJob(id, st[id])]
    /\ \E P \in SUBSET (IndexTimes \X JobIds) :
           queueIndex = [k \in {indexKey(Whole(e[1]), e[2]) : e \in P} |->
                            (CHOOSE e \in P : indexKey(Whole(e[1]), e[2]) = k)[2]]
    /\ now = StartTime
    /\ events = EmptyTable
    /\ alerts = << >>
    /\ workers = [w \in WorkerIds |-> IdleWorker]
    /\ api = IdleApi
    /\ calls = 0
    /\ outstanding = {}
    /\ attempts = EmptyTable
    /\ produced = EmptyTable
    /\ ret = [op |-> "init"]

\* queue.claimJob(); ret records the returned job and the number of
\* consecutive calls, this one included, that removed an orphan entry
CClaimJob ==
    LET r == claimJob(jobs, queueIndex, now)
        orphan == r.claimed = Undefined /\ r.queueIndex # queueIndex
    IN
    /\ jobs' = r.jobs
    /\ queueIndex' = r.queueIndex
    /\ ret' = [op |-> "claim", job |-> r.claimed,
               orphans |-> IF ~orphan THEN 0
                           ELSE IF ret.op = "claim" THEN ret.orphans + 1 ELSE 1]
    /\ UNCHANGED <<now, outstanding, attempts>>
    /\ QueueFrame

ClaimNext ==
    \/ QTick
    \/ CClaimJob

ClaimSpec == ClaimInit /\ [][ClaimNext]_vars

----------------------------------------------------------------------------
(* The Observer driven directly: log called with any action, at any time.  *)

\* the entries a caller logs: action, severity and body
LoggedEvents ==
    {[action |-> "job-submitted", type |-> "log", body |-> [jobId |-> id]] : id \in JobIds}
        \cup {[action |-> a, type |-> "log", body |-> [jobId |-> id, workerId |-> "w1"]] :
                 a \in {"job-claimed", "job-completed"}, id \in JobIds}
        \cup {[action |-> "job-failed", type |-> "error",
               body |-> [jobId |-> id, workerId |-> "w1"]] : id \in JobIds}
        \cup {[action |-> "api-request", type |-> "log",
               body |-> [method |-> "GET", path |-> "/metrics"]]}

\* the windows a caller passes to getMetrics: up to the default window, and
\* one that reaches back beyond time 0
MetricsWindows == (0..DEFAULT_METRICS_WINDOW_MS) \cup {now + 1}

OLog(ev) ==
    LET logged == log(events, alerts, now, ev.action, ev.type, ev.body) IN
    /\ calls < MaxLogs
    /\ calls' = calls + 1
    /\ events' = logged.events
    /\ alerts' = logged.alerts
    /\ ret' = [op |-> "log",
               entry |-> [timestamp |-> now, type |-> ev.type, action |-> ev.action,
                          body |-> ev.body]]
    /\ UNCHANGED <<jobs, queueIndex, now, workers, api, outstanding, attempts, produced>>

ObserverNext ==
    \/ QTick
    \/ \E ev \in LoggedEvents : OLog(ev)

ObserverSpec == Init /\ [][ObserverNext]_vars

----------------------------------------------------------------------------
(* The Observer read back: log called with any action, a worker's          *)
(* worker-start included, and getTrace called at any time.                 *)

TraceEvents ==
    LoggedEvents
        \cup {[action |-> "worker-start", type |-> "log", body |-> [workerId |-> "w1"]]}

\* observer.getTrace(jobId): the scan of the whole table in key order, the
\* filter and the sort; the table is read only
OGetTrace(jobId) ==
    /\ \E scanned \in KeyOrders(events) :
           ret' = [op |-> "trace", id |-> jobId, result |-> getTrace(scanned, jobId)]
    /\ UNCHANGED <<jobs, queueIndex, now, events, alerts, workers, api, calls,
                   outstanding, attempts, produced>>

TraceNext ==
    \/ QTick
    \/ \E ev \in TraceEvents : OLog(ev)
    \/ \E jobId \in JobIds : OGetTrace(jobId)

TraceSpec == Init /\ [][TraceNext]_vars

----------------------------------------------------------------------------
(* The system: POST /bird requests and the workers' polling loops.         *)
(*                                                                         *)
(* The workers run in one process: what a worker does between two awaits   *)
(* is one step. The API is another process over the same store, so the     *)
(* steps of the workers fall between the store operations of a request     *)
(* handler: the handler is two steps, up to and after queue.submitJob.     *)

SetWorker(w, pc, job) ==
    workers' = [workers EXCEPT ![w] = [pc |-> pc, job |-> job]]

\* POST /bird up to the return of queue.submitJob: the api-request entry of
\* the middleware, the validation of name, the submission
PostBird(body) ==
    LET valid == body.kind = "string" /\ body.name # << >>
        logged == log(events, alerts, now, "api-request", "log",
                      [method |-> "POST", path |-> "/bird"])
        r == submitJob(jobs, queueIndex, body.name, now)
    IN
    /\ api.pc = "idle"
    /\ calls < MaxPosts
    /\ calls' = calls + 1
    /\ events' = logged.events
    /\ alerts' = logged.alerts
    /\ IF valid
       THEN /\ jobs' = r.jobs
            /\ queueIndex' = r.queueIndex
            /\ outstanding' = IF r.isDuplicate THEN outstanding
                              ELSE outstanding \ {r.job.id}
            /\ attempts' = IF r.isDuplicate THEN attempts
                           ELSE Put(attempts, r.job.id, 0)
            /\ api' = [pc |-> "respond", job |-> r.job, isDuplicate |-> r.isDuplicate,
                       status |-> 0, req |-> body]
       ELSE /\ api' = [IdleApi EXCEPT !.status = 400, !.req = body]
            /\ UNCHANGED <<jobs, queueIndex, outstanding, attempts>>
    /\ UNCHANGED <<now, workers, produced, ret>>

\* POST /bird from the return of queue.submitJob: the job-duplicate or
\* job-submitted entry, and the response
PostBirdRespond ==
    LET job == api.job
        logged == IF api.isDuplicate
                  THEN log(events, alerts, now, "job-duplicate", "log",
                           [jobId |-> job.id, name |-> job.name,
                            currentStatus |-> job.status])
                  ELSE log(events, alerts, now, "job-submitted", "log",
                           [jobId |-> job.id, name |-> job.name])
    IN
    /\ api.pc = "respond"
    /\ events' = logged.events
    /\ alerts' = logged.alerts
    /\ api' = [IdleApi EXCEPT !.status = IF api.isDuplicate THEN 200 ELSE 201,
                            !.req = api.req]
    /\ UNCHANGED <<jobs, queueIndex, now, workers, calls, outstanding, attempts,
                   produced, ret>>

\* poll up to the await: queue.claimJob() and, with a job, the job-claimed
\* entry and the start of processJob(job); without one the next poll is
\* scheduled. B is the events table the poll finds.
PollFrom(w, B) ==
    LET r == claimJob(jobs, queueIndex, now)
        job == r.claimed
        logged == IF job = Undefined THEN [events |-> B, alerts |-> alerts]
                  ELSE log(B, alerts, now, "job-claimed", "log",
                           [jobId |-> job.id, name |-> job.name, workerId |-> w])
    IN
    /\ jobs' = r.jobs
    /\ queueIndex' = r.queueIndex
    /\ events' = logged.events
    /\ alerts' = logged.alerts
    /\ outstanding' = IF job = Undefined THEN outstanding
                      ELSE outstanding \cup {job.id}
    /\ attempts' = IF job = Undefined THEN attempts
                   ELSE Put(attempts, job.id, attempts[job.id] + 1)
    /\ SetWorker(w, IF job = Undefined THEN "poll" ELSE "processing", job)
    /\ UNCHANGED <<now, api, calls, produced, ret>>

\* runWorker: the worker-start entry and the first poll. The workers are
\* started first, before the clock of the model advances.
WorkerStart(w) ==
    /\ workers[w].pc = "start"
    /\ now = StartTime
    /\ PollFrom(w, log(events, alerts, now, "worker-start", "log",
                       [workerId |-> w]).events)

\* a poll that writes the worker-start entry again
PollLogsStart(w) ==
    /\ workers[w].pc = "poll"
    /\ PollFrom(w, log(events, alerts, now, "worker-start", "log",
                       [workerId |-> w]).events)

\* a poll scheduled by setTimeout
Poll(w) ==
    /\ workers[w].pc = "poll"
    /\ PollFrom(w, events)

\* poll after the await: processJob returned body; queue.completeJob, the
\* job-completed entry, and the next poll is scheduled
ProcessorSucceeds(w, body) ==
    LET job == workers[w].job
        r == completeJob(jobs, job.id, body)
        logged == log(events, alerts, now, "job-completed", "log",
                      [jobId |-> job.id, name |-> job.name, workerId |-> w])
    IN
    /\ workers[w].pc = "processing"
    /\ jobs' = r.jobs
    /\ events' = logged.events
    /\ alerts' = logged.alerts
    /\ produced' = Put(produced, job.id, body)
    /\ SetWorker(w, "poll", Undefined)
    /\ UNCHANGED <<queueIndex, now, api, calls, outstanding, attempts, ret>>

\* poll after the await: processJob threw; queue.failJob and the job-failed
\* entry, or computeBackoff, queue.retryJob and the job-retry entry; and the
\* next poll is scheduled
ProcessorFails(w, jitter) ==
    LET job == workers[w].job
        nextAvailableAt == computeBackoff(job.retryCount, now, jitter)
        f == failJob(jobs, job.id)
        r == retryJob(jobs, queueIndex, job.id, nextAvailableAt)
        logged == IF retriesExhausted(job)
                  THEN log(events, alerts, now, "job-failed", "error",
                           [jobId |-> job.id, name |-> job.name, workerId |-> w,
                            retryCount |-> job.retryCount, error |-> "error"])
                  ELSE log(events, alerts, now, "job-retry", "warning",
                           [jobId |-> job.id, name |-> job.name, workerId |-> w,
                            retryCount |-> job.retryCount + 1,
                            nextAvailableAt |-> nextAvailableAt, error |-> "error"])
    IN
    /\ workers[w].pc = "processing"
    /\ IF retriesExhausted(job)
       THEN /\ jobs' = f.jobs
            /\ UNCHANGED <<queueIndex, outstanding>>
       ELSE /\ jobs' = r.jobs
            /\ queueIndex' = r.queueIndex
            /\ outstanding' = outstanding \ {job.id}
    /\ events' = logged.events
    /\ alerts' = logged.alerts
    /\ SetWorker(w, "poll", Undefined)
    /\ UNCHANGED <<now, api, calls, attempts, produced, ret>>

Next ==
    \/ Tick
    \/ \E body \in RequestBodies : PostBird(body)
    \/ PostBirdRespond
    \/ \E w \in WorkerIds : WorkerStart(w)
    \/ \E w \in WorkerIds : Poll(w)
    \/ \E w \in WorkerIds, body \in Results : ProcessorSucceeds(w, body)
    \/ \E w \in WorkerIds, jitter \in Jitters : ProcessorFails(w, jitter)

Spec == Init /\ [][Next]_vars

----------------------------------------------------------------------------
(* The workers over an event store that can fail: Spec and the poll in     *)
(* which the write of the job-completed entry throws. That call is inside  *)
(* the try block, after queue.completeJob, so its error is caught by the   *)
(* catch block that handles the errors of processJob.                      *)

\* poll after the await: processJob returned body, queue.completeJob stored
\* it, observer.log(job-completed) throws and writes nothing; the catch block
\* runs failJob and logs job-failed, or computeBackoff, retryJob and logs
\* job-retry, on the job that was just completed; the next poll is scheduled
CompletedLogStoreError(w, body, jitter) ==
    LET job == workers[w].job
        c == completeJob(jobs, job.id, body)
        nextAvailableAt == computeBackoff(job.retryCount, now, jitter)
        f == failJob(c.jobs, job.id)
        r == retryJob(c.jobs, queueIndex, job.id, nextAvailableAt)
        logged == IF retriesExhausted(job)
                  THEN log(events, alerts, now, "job-failed", "error",
                           [jobId |-> job.id, name |-> job.name, workerId |-> w,
                            retryCount |-> job.retryCount, error |-> "error"])
                  ELSE log(events, alerts, now, "job-retry", "warning",
                           [jobId |-> job.id, name |-> job.name, workerId |-> w,
                            retryCount |-> job.retryCount + 1,
                            nextAvailableAt |-> nextAvailableAt, error |-> "error"])
    IN
    /\ workers[w].pc = "processing"
    /\ IF retriesExhausted(job)
       THEN /\ jobs' = f.jobs
            /\ UNCHANGED <<queueIndex, outstanding>>
       ELSE /\ jobs' = r.jobs
            /\ queueIndex' = r.queueIndex
            /\ outstanding' = outstanding \ {job.id}
    /\ events' = logged.events
    /\ alerts' = logged.alerts
    /\ produced' = Put(produced, job.id, body)
    /\ SetWorker(w, "poll", Undefined)
    /\ UNCHANGED <<now, api, calls, attempts, ret>>

LogFaultNext ==
    \/ Next
    \/ \E w \in WorkerIds, jitter \in Jitters :
           CompletedLogStoreError(w, "r1", jitter)

LogFaultSpec == Init /\ [][LogFaultNext]_vars

----------------------------------------------------------------------------
(* The system under fair scheduling: every worker is started and its timer *)
(* fires, processJob returns, with a result or an error, and the clock     *)
(* keeps advancing (up to the horizon of the model).                       *)

\* the clock advances once the workers have been started
LiveTick ==
    /\ \A w \in WorkerIds : workers[w].pc # "start"
    /\ Tick

\* processJob returns, with a result or by throwing
ProcessorReturns(w) ==
    \/ ProcessorSucceeds(w, "r1")
    \/ \E jitter \in Jitters : ProcessorFails(w, jitter)

\* the requests of the fair runs: valid ones, for two jobs
LiveBodies == {[kind |-> "string", name |-> n] : n \in {<<97, 32, 9, 98>>, <<99>>}}

LiveNext ==
    \/ LiveTick
    \/ \E body \in LiveBodies : PostBird(body)
    \/ PostBirdRespond
    \/ \E w \in WorkerIds : WorkerStart(w)
    \/ \E w \in WorkerIds : Poll(w)
    \/ \E w \in WorkerIds : ProcessorReturns(w)

LiveSpec ==
    /\ Init
    /\ [][LiveNext]_vars
    /\ WF_vars(LiveTick)
    /\ \A w \in WorkerIds : WF_vars(WorkerStart(w))
    /\ \A w \in WorkerIds : WF_vars(Poll(w))
    /\ \A w \in WorkerIds : WF_vars(ProcessorReturns(w))

----------------------------------------------------------------------------
(* The API with its read endpoint: Spec and GET /bird.                     *)

\* the query strings of GET /bird; the empty one stands for a missing name
QueryNames == Names \cup {<< >>}

\* GET /bird that answers with any record it finds, whatever its status
getBirdAnyStatus(J, name) ==
    IF name = << >> THEN [status |-> 400, json |-> Undefined]
    ELSE LET job == getJob(J, toJobId(name)) IN
         IF job = Undefined THEN [status |-> 404, json |-> Undefined]
         ELSE [status |-> 200,
               json |-> [id |-> job.id, name |-> job.name, status |-> job.status,
                         createdAt |-> job.createdAt, body |-> job.body]]

\* the response of GET /bird?name=... on the jobs table J
getBird(J, name) ==
    IF name = << >> THEN [status |-> 400, json |-> Undefined]
    ELSE LET job == getJob(J, toJobId(name)) IN
         IF job = Undefined \/ job.status # "completed"
         THEN [status |-> 404, json |-> Undefined]
         ELSE [status |-> 200,
               json |-> [id |-> job.id, name |-> job.name, status |-> job.status,
                         createdAt |-> job.createdAt, body |-> job.body]]

\* GET /bird: the api-request entry of the middleware and the response, which
\* api.job holds
GetBird(name) ==
    LET logged == log(events, alerts, now, "api-request", "log",
                      [method |-> "GET", path |-> "/bird"])
        r == getBird(jobs, name)
    IN
    /\ api.pc = "idle"
    /\ calls < MaxPosts
    /\ calls' = calls + 1
    /\ events' = logged.events
    /\ alerts' = logged.alerts
    /\ api' = [IdleApi EXCEPT !.status = r.status, !.job = r.json,
                              !.req = [kind |-> "query", name |-> name]]
    /\ UNCHANGED <<jobs, queueIndex, now, workers, outstanding, attempts,
                   produced, ret>>

ApiNext ==
    \/ Next
    \/ \E name \in QueryNames : GetBird(name)

ApiSpec == Init /\ [][ApiNext]_vars

----------------------------------------------------------------------------
(* The workers over a store that can fail: Spec and the polls in which a   *)
(* store operation throws. poll has no try around queue.claimJob(), so the *)
(* error leaves poll before its last statement, the setTimeout that        *)
(* schedules the next poll: the promise of poll is rejected and the worker *)
(* has no poll pending any more (pc "stopped").                            *)

\* a poll in which queue.claimJob() throws: the transaction of claimJob is
\* aborted, nothing is written, and no next poll is scheduled. In the first
\* poll the worker-start entry was written before.
ClaimStoreError(w) ==
    /\ workers[w].pc \in {"start", "poll"}
    /\ workers[w].pc = "start" => now = StartTime
    /\ events' = IF workers[w].pc = "start"
                 THEN log(events, alerts, now, "worker-start", "log",
                          [workerId |-> w]).events
                 ELSE events
    /\ SetWorker(w, "stopped", Undefined)
    /\ UNCHANGED <<jobs, queueIndex, now, alerts, api, calls, outstanding,
                   attempts, produced, ret>>

\* a worker that stops between its claim and the outcome: processJob never
\* returns (its fetch has no timeout) or the worker dies; it keeps the job it
\* claimed and calls neither completeJob nor retryJob nor failJob
WorkerStops(w) ==
    /\ workers[w].pc = "processing"
    /\ SetWorker(w, "stopped", workers[w].job)
    /\ UNCHANGED <<jobs, queueIndex, now, events, alerts, api, calls, outstanding,
                   attempts, produced, ret>>

FaultNext ==
    \/ Next
    \/ \E w \in WorkerIds : ClaimStoreError(w)
    \/ \E w \in WorkerIds : WorkerStops(w)

FaultSpec == Init /\ [][FaultNext]_vars

----------------------------------------------------------------------------
(* Properties.                                                             *)

\* the entries of the index Q that point to a job id
EntriesIn(Q, id) == {k \in DOMAIN Q : Q[k] = id}

EntriesOf(id) == EntriesIn(queueIndex, id)

Claimed(w) == workers[w].pc # "processing" /\ workers'[w].pc = "processing"

\* C1 Index consistency (P2), over the Queue's public operations called in
\* any order with any job id: a job is queued if and only if exactly one
\* index entry points to it, and that entry's key is (availableAt, id).
C1_IndexConsistency ==
    \A id \in DOMAIN jobs :
        /\ jobs[id].status = "queued" <=> Cardinality(EntriesOf(id)) = 1
        /\ jobs[id].status = "queued" =>
               EntriesOf(id) = {indexKey(jobs[id].availableForProcessingAt, id)}

\* C2 Claim exclusivity (P3): a claim by a worker never returns a job that an
\* earlier claim returned and that was not re-enqueued since (by retryJob or
\* by resubmission after failure); so two claims never return the same job.
C2_ClaimExclusivity ==
    [][\A w \in WorkerIds :
           Claimed(w) => workers'[w].job.id \notin outstanding]_vars

\* C2 witness: both workers have claimed a job and are processing it
C2_Witness ==
    \A w \in WorkerIds : workers[w].pc = "processing"

\* C3 Eligibility (P4): claimJob never returns a job whose availableAt is
\* greater than the clock at the moment of the claim.
C3_Eligibility ==
    [][\A w \in WorkerIds :
           Claimed(w) =>
               ~NumGreater(workers'[w].job.availableForProcessingAt, now')]_vars

\* the statuses of a record that make a submission a duplicate
NotFailed == {"queued", "processing", "completed"}

\* C4 Idempotent submission (P8): submitJob(n), when a record for
\* canonical(n) exists with status queued, processing or completed, returns
\* that record with isDuplicate = true and leaves the jobs table and the queue
\* index unchanged.
C4_IdempotentSubmission ==
    [][\A n \in Names :
           (/\ ret'.op = "submit"
            /\ ret'.name = n
            /\ toJobId(n) \in DOMAIN jobs
            /\ jobs[toJobId(n)].status \in NotFailed)
           => (/\ ret'.isDuplicate
               /\ ret'.job = jobs[toJobId(n)]
               /\ jobs' = jobs
               /\ queueIndex' = queueIndex)]_vars

\* C4 witness: submissions answered as duplicates of a queued, of a processing
\* and of a completed job (here the last call is the duplicate of a job that
\* is completed or being processed)
C4_Witness ==
    /\ ret.op = "submit"
    /\ ret.isDuplicate
    /\ ret.job.status \in {"processing", "completed"}
    /\ DOMAIN queueIndex # {}

\* the number of times successive claims at time t return the job id, until a
\* claim finds nothing to take
RECURSIVE TimesClaimed(_, _, _, _)
TimesClaimed(J, Q, t, id) ==
    LET r == claimJob(J, Q, t) IN
    IF r.queueIndex = Q THEN 0
    ELSE (IF r.claimed # Undefined /\ r.claimed.id = id THEN 1 ELSE 0)
             + TimesClaimed(r.jobs, r.queueIndex, t, id)

\* C5 Reset on failed (P9): submitJob(n), when the record for canonical(n) has
\* status failed, returns isDuplicate = false, replaces the record by one with
\* createdAt = now, availableAt = now, retryCount = 0, status queued and body
\* {} (id and name kept) and inserts the index entry (now, id); the job is
\* then returned exactly once by the claims that follow.
C5_ResetOnFailed ==
    [][\A n \in Names :
           LET id == toJobId(n) IN
           (/\ ret'.op = "submit"
            /\ ret'.name = n
            /\ id \in DOMAIN jobs
            /\ jobs[id].status = "failed")
           => (/\ ~ret'.isDuplicate
               /\ jobs' = Put(jobs, id,
                              [id |-> id, name |-> jobs[id].name, createdAt |-> now,
                               availableForProcessingAt |-> Whole(now),
                               retryCount |-> 0, status |-> "queued",
                               body |-> EmptyBody])
               /\ ret'.job = jobs'[id]
               /\ queueIndex' = Put(queueIndex, indexKey(Whole(now), id), id)
               /\ TimesClaimed(jobs', queueIndex', now, id) = 1)]_vars

\* all strings of at most len characters of the alphabet
RECURSIVE StringsUpTo(_, _)
StringsUpTo(alphabet, len) ==
    IF len = 0 THEN {<< >>}
    ELSE LET shorter == StringsUpTo(alphabet, len - 1) IN
         shorter \cup {<<c>> \o s2 : c \in alphabet, s2 \in shorter}

\* the strings over "A", "a", "b", space, tab and "-"
SampleNames == StringsUpTo({65, 97, 98, 32, 9, 45}, MaxNameLen)

\* the characters of s that are neither whitespace nor hyphens
Letters(s) == SelectSeq(s, LAMBDA c : ~IsSpace(c) /\ c # 45)

\* the number of runs of whitespace in s
SpaceRuns(s) ==
    Cardinality({i \in 1..Len(s) : IsSpace(s[i]) /\ (i = 1 \/ ~IsSpace(s[i - 1]))})

Hyphens(s) == Cardinality({i \in 1..Len(s) : s[i] = 45})

\* id is name in lower case with one hyphen for each run of whitespace
IsCanonicalOf(id, name) ==
    /\ \A i \in 1..Len(id) : ~IsSpace(id[i]) /\ ~IsUpper(id[i])
    /\ Letters(id) = toLowerCase(Letters(name))
    /\ Hyphens(id) = Hyphens(name) + SpaceRuns(name)

\* canonicalisation on the sample names: the canonical form, and idempotence
C6_OnSamples ==
    \A n \in SampleNames :
        /\ IsCanonicalOf(toJobId(n), n)
        /\ toJobId(toJobId(n)) = toJobId(n)

\* C6 Uniqueness and deduplication (P1): the job id is the request name in
\* lower case with each run of whitespace replaced by one hyphen; names with
\* the same canonical form share one job record, whatever is submitted; and
\* canonicalisation is idempotent.
C6_Uniqueness ==
    /\ C6_OnSamples
    /\ \A id \in DOMAIN jobs :
           /\ jobs[id].id = id
           /\ IsCanonicalOf(id, jobs[id].name)
    /\ ret.op = "submit" =>
           /\ IsCanonicalOf(ret.job.id, ret.name)
           /\ ret.job.id \in DOMAIN jobs
           /\ \A id \in DOMAIN jobs :
                  Letters(id) = toLowerCase(Letters(ret.name))
                      /\ Hyphens(id) = Hyphens(ret.name) + SpaceRuns(ret.name)
                  => id = ret.job.id

\* C6 witness: a name was submitted whose job exists under another name with
\* the same canonical form
C6_Witness ==
    /\ ret.op = "submit"
    /\ ret.isDuplicate
    /\ ret.name # ret.job.name

\* C7 Bounded retries (P6): no job has retryCount > MAX_RETRIES.
C7_BoundedRetries ==
    \A id \in DOMAIN jobs : jobs[id].retryCount <= MAX_RETRIES

\* C7 witness: a job has failed after MAX_RETRIES retries
C7_Witness ==
    \E id \in DOMAIN jobs :
        jobs[id].status = "failed" /\ jobs[id].retryCount = MAX_RETRIES

\* C8 Permanent failure after MAX_RETRIES + 1 attempts: between a job's
\* submission (or reset) and its next terminal state the processor is invoked
\* for it at most MAX_RETRIES + 1 times, and the job becomes failed exactly
\* when the attempt made with retryCount = MAX_RETRIES fails.
C8_PermanentFailure ==
    [][/\ \A id \in DOMAIN attempts' : attempts'[id] <= MAX_RETRIES + 1
       /\ \A w \in WorkerIds :
              (\E jitter \in Jitters : ProcessorFails(w, jitter))
              => (jobs'[workers[w].job.id].status = "failed"
                      <=> workers[w].job.retryCount = MAX_RETRIES)
       /\ \A id \in DOMAIN jobs :
              (jobs[id].status # "failed" /\ jobs'[id].status = "failed")
              => \E w \in WorkerIds :
                     /\ \E jitter \in Jitters : ProcessorFails(w, jitter)
                     /\ workers[w].job.id = id
                     /\ workers[w].job.retryCount = MAX_RETRIES
                     /\ attempts[id] = MAX_RETRIES + 1]_vars

\* C8 witness: a job failed at its attempt number MAX_RETRIES + 1
C8_Witness ==
    \E id \in DOMAIN jobs :
        /\ jobs[id].status = "failed"
        /\ attempts[id] = MAX_RETRIES + 1
        /\ \E e \in DOMAIN events : e.action = "job-failed" /\ e.body.jobId = id

\* the entries a step writes to the events table
NewEntries ==
    {e \in DOMAIN events' : e \notin DOMAIN events \/ events'[e] > events[e]}

\* C9 Retry-or-fail decision: when the processor fails for a claimed job, the
\* worker compares the retryCount the job had when claimed: if it is >=
\* MAX_RETRIES the job becomes failed with retryCount unchanged and job-failed
\* is logged with severity error; otherwise the job becomes queued with
\* retryCount + 1 and an availableAt in the future, and job-retry is logged
\* with severity warning and the new stored retryCount in its body.
C9_RetryOrFail ==
    [][\A w \in WorkerIds :
           (\E jitter \in Jitters : ProcessorFails(w, jitter))
           => LET job == workers[w].job
                  id == job.id
              IN IF job.retryCount >= MAX_RETRIES
                 THEN /\ jobs' = Put(jobs, id, [jobs[id] EXCEPT !.status = "failed"])
                      /\ jobs'[id].retryCount = job.retryCount
                      /\ queueIndex' = queueIndex
                      /\ \E e \in NewEntries :
                             /\ NewEntries = {e}
                             /\ e.action = "job-failed" /\ e.type = "error"
                             /\ e.body.jobId = id /\ e.body.workerId = w
                 ELSE /\ jobs'[id].status = "queued"
                      /\ jobs'[id].retryCount = job.retryCount + 1
                      /\ NumGreater(jobs'[id].availableForProcessingAt, now)
                      /\ EntriesIn(queueIndex', id) =
                             {indexKey(jobs'[id].availableForProcessingAt, id)}
                      /\ \E e \in NewEntries :
                             /\ NewEntries = {e}
                             /\ e.action = "job-retry" /\ e.type = "warning"
                             /\ e.body.jobId = id /\ e.body.workerId = w
                             /\ e.body.retryCount = jobs'[id].retryCount
                             /\ e.body.nextAvailableAt
                                    = jobs'[id].availableForProcessingAt]_vars

\* C9 witness: both branches were taken; a job-retry and a job-failed entry
\* are in the log
C9_Witness ==
    /\ \E e \in DOMAIN events : e.action = "job-retry"
    /\ \E e \in DOMAIN events : e.action = "job-failed"

JobEntry(t, action, job, w) ==
    [timestamp |-> t, type |-> "log", action |-> action,
     body |-> [jobId |-> job.id, name |-> job.name, workerId |-> w]]

\* C10 Worker success path: when claimJob returned job j and the processor
\* succeeds with result r, job-claimed was logged, then j is set to completed
\* with body r, then job-completed is logged (both entries with j.id and the
\* worker id), and j has no index entry afterwards.
C10_SuccessPath ==
    [][/\ \A w \in WorkerIds : \A r \in Results :
              ProcessorSucceeds(w, r)
              => LET job == workers[w].job IN
                 /\ \E t \in StartTime..now :
                        JobEntry(t, "job-claimed", job, w) \in DOMAIN events
                 /\ jobs' = Put(jobs, job.id,
                                [jobs[job.id] EXCEPT !.status = "completed",
                                                     !.body = r])
                 /\ NewEntries = {JobEntry(now, "job-completed", job, w)}
                 /\ EntriesIn(queueIndex', job.id) = {}
       /\ \A e \in DOMAIN events' :
              e.action = "job-completed" =>
                  /\ jobs'[e.body.jobId].status = "completed"
                  /\ jobs'[e.body.jobId].body \in Results
                  /\ EntriesIn(queueIndex', e.body.jobId) = {}]_vars

\* C10 witness: a job is completed with a processor result, and its
\* job-claimed and job-completed entries are in the log
C10_Witness ==
    \E id \in DOMAIN jobs : \E w \in WorkerIds :
        /\ jobs[id].status = "completed"
        /\ jobs[id].body \in Results
        /\ \E e \in DOMAIN events :
               e.action = "job-claimed" /\ e.body.jobId = id /\ e.body.workerId = w
        /\ \E e \in DOMAIN events :
               e.action = "job-completed" /\ e.body.jobId = id /\ e.body.workerId = w

----------------------------------------------------------------------------
\* C11 Retry (P5): for an existing job, retryJob(id, t) sets status queued,
\* retryCount to the previous retryCount + 1 and availableAt to t, leaves the
\* other fields and the other jobs as they were, adds the index entry (t, id)
\* in the same step and returns the updated job; for a missing id it returns
\* none and changes neither table.
C11_Retry ==
    [][ret'.op = "retry" =>
          LET id == ret'.id
              t == ret'.next
          IN IF id \in DOMAIN jobs
             THEN /\ DOMAIN jobs' = DOMAIN jobs
                  /\ \A other \in DOMAIN jobs \ {id} : jobs'[other] = jobs[other]
                  /\ jobs'[id].status = "queued"
                  /\ jobs'[id].retryCount = jobs[id].retryCount + 1
                  /\ jobs'[id].availableForProcessingAt = t
                  /\ jobs'[id].id = id
                  /\ jobs'[id].name = jobs[id].name
                  /\ jobs'[id].createdAt = jobs[id].createdAt
                  /\ jobs'[id].body = jobs[id].body
                  /\ DOMAIN queueIndex' = DOMAIN queueIndex \cup {indexKey(t, id)}
                  /\ queueIndex'[indexKey(t, id)] = id
                  /\ \A k \in DOMAIN queueIndex \ {indexKey(t, id)} :
                         queueIndex'[k] = queueIndex[k]
                  /\ ret'.job = jobs'[id]
             ELSE /\ jobs' = jobs
                  /\ queueIndex' = queueIndex
                  /\ ret'.job = Undefined]_vars

\* C11: retryJob has re-enqueued a job, which now has retryCount 1, and a
\* later retryJob for an id that has no job has returned none
C11_Witness ==
    /\ ret.op = "retry"
    /\ ret.job = Undefined
    /\ \E id \in DOMAIN jobs : jobs[id].status = "queued" /\ jobs[id].retryCount = 1

----------------------------------------------------------------------------
\* a < b for two numbers
NumLess(a, b) == a.ms < b.ms \/ (a.ms = b.ms /\ ~a.half /\ b.half)

\* the ids of the queued jobs, and of those whose availableAt has come
QueuedIds == {id \in DOMAIN jobs : jobs[id].status = "queued"}
EligibleIds ==
    {id \in QueuedIds : ~NumGreater(jobs[id].availableForProcessingAt, now)}

DistinctAvailableAt ==
    \A a, b \in QueuedIds :
        a # b => jobs[a].availableForProcessingAt # jobs[b].availableForProcessingAt

\* C12 Ordering (P7): when the queued jobs have pairwise distinct availableAt
\* values, a claimJob call made while some queued job is eligible returns the
\* eligible job with the least availableAt, as it is stored (a retried job
\* with its incremented retryCount), so that successive calls return the
\* eligible jobs in ascending availableAt order and a job whose availableAt
\* lies in the future comes after every eligible one.
C12_Ordering ==
    [][(ret'.op = "claim" /\ DistinctAvailableAt /\ EligibleIds # {}) =>
          /\ ret'.job # Undefined
          /\ ret'.job.id \in EligibleIds
          /\ \A k \in EligibleIds \ {ret'.job.id} :
                 NumLess(jobs[ret'.job.id].availableForProcessingAt,
                         jobs[k].availableForProcessingAt)
          /\ ret'.job = [jobs[ret'.job.id] EXCEPT !.status = "processing"]]_vars

----------------------------------------------------------------------------
\* the ids that successive claimJob calls at time t return, up to the first
\* call that returns none
RECURSIVE ClaimOrder(_, _, _)
ClaimOrder(J, Q, t) ==
    LET r == claimJob(J, Q, t) IN
    IF r.claimed = Undefined THEN << >>
    ELSE <<r.claimed.id>> \o ClaimOrder(r.jobs, r.queueIndex, t)

\* the tables hold what submissions of distinct ids leave, and nothing else
OnlySubmitted(J, Q) ==
    /\ \A id \in DOMAIN J :
           /\ J[id].status = "queued"
           /\ J[id].retryCount = 0
           /\ J[id].availableForProcessingAt = Whole(J[id].createdAt)
           /\ J[id].body = EmptyBody
    /\ DOMAIN Q = {indexKey(Whole(J[id].createdAt), id) : id \in DOMAIN J}
    /\ \A id \in DOMAIN J : Q[indexKey(Whole(J[id].createdAt), id)] = id

\* C13 Submission order: when jobs with distinct ids have been submitted one
\* after another and nothing else was done, successive claimJob calls return
\* them in the order of their submission and the call after the last returns
\* none: each further submission puts its job behind the jobs submitted
\* before it.
C13_SubmissionOrder ==
    [][(ret'.op = "submit" /\ ~ret'.isDuplicate /\ OnlySubmitted(jobs, queueIndex)) =>
          /\ ClaimOrder(jobs', queueIndex', now')
                 = Append(ClaimOrder(jobs, queueIndex, now), ret'.job.id)
          /\ Len(ClaimOrder(jobs', queueIndex', now')) = Cardinality(DOMAIN jobs')]_vars

----------------------------------------------------------------------------
\* the edges of the lifecycle, each with the operation that takes it
LifecycleEdges ==
    {<<"queued", "processing", "claim">>,
     <<"processing", "completed", "complete">>,
     <<"processing", "queued", "retry">>,
     <<"processing", "failed", "fail">>,
     <<"failed", "queued", "submit">>}

\* C14 Lifecycle: over any sequence of Queue operations a job starts queued
\* and its status changes only along queued -> processing (claim),
\* processing -> completed (complete), processing -> queued (retry),
\* processing -> failed (fail) and failed -> queued (resubmission); so no
\* operation moves a job out of completed, and none moves a queued job to
\* completed or failed.
C14_Lifecycle ==
    [][\A id \in DOMAIN jobs' :
          IF id \in DOMAIN jobs
          THEN jobs'[id].status # jobs[id].status =>
                   <<jobs[id].status, jobs'[id].status, ret'.op>> \in LifecycleEdges
          ELSE jobs'[id].status = "queued"]_vars

----------------------------------------------------------------------------
\* C15 Body: in every state the workers and the API reach, a completed job
\* has as body the result of the last successful processJob call for it, and
\* a job that is not completed and for which processJob never succeeded has
\* the body {}.
C15_Body ==
    \A id \in DOMAIN jobs :
        /\ jobs[id].status = "completed" =>
               id \in DOMAIN produced /\ jobs[id].body = produced[id]
        /\ (jobs[id].status # "completed" /\ id \notin DOMAIN produced) =>
               jobs[id].body = EmptyBody

\* C15: one job is completed with the result r2 and another one has failed
C15_Witness ==
    /\ \E id \in DOMAIN jobs : jobs[id].status = "completed" /\ jobs[id].body = "r2"
    /\ \E id \in DOMAIN jobs : jobs[id].status = "failed"

----------------------------------------------------------------------------
\* C17 Trace order: getTrace(id) returns the entries logged with
\* body.jobId = id in the order in which they were logged, at whatever times
\* they were logged (also within one millisecond), and no entry of another
\* job: each log call for id extends what getTrace(id) returns by the new
\* entry at the end and leaves the traces of the other ids as they were.
C17_TraceOrder ==
    [][(ret'.op = "log" /\ "jobId" \in DOMAIN ret'.entry.body) =>
          LET id == ret'.entry.body.jobId IN
          /\ getTraceResults(events', id)
                 = {Append(s, ret'.entry) : s \in getTraceResults(events, id)}
          /\ \A other \in JobIds \ {id} :
                 getTraceResults(events', other) = getTraceResults(events, other)
          /\ \A s \in getTraceResults(events', id) :
                 \A i \in 1..Len(s) : s[i].body.jobId = id]_vars

----------------------------------------------------------------------------
\* the sequence s holds a job-submitted, a later job-claimed and a still later
\* job-completed entry
InLifecycleOrder(s) ==
    \E i, j, k \in 1..Len(s) :
        /\ i < j /\ j < k
        /\ s[i].action = "job-submitted"
        /\ s[j].action = "job-claimed"
        /\ s[k].action = "job-completed"

\* the POST /bird handler is between queue.submitJob and its log entry for id
Admitting(id) == api.pc = "respond" /\ api.job.id = id

\* C16 Trace completeness (P10): for every job that was submitted through
\* POST /bird, claimed by a worker and completed, whatever the interleaving of
\* the handler and the workers, getTrace(id) contains the job's job-submitted,
\* job-claimed and job-completed entries and returns them in that order.
C16_TraceCompleteness ==
    \A id \in DOMAIN jobs :
        (jobs[id].status = "completed" /\ ~Admitting(id)) =>
            \A s \in getTraceResults(events, id) : InLifecycleOrder(s)

----------------------------------------------------------------------------
\* the number of entries with this action and a timestamp >= now - windowMs
InWindow(action, windowMs) ==
    SumOver(events, {e \in DOMAIN events :
                        e.action = action /\ e.timestamp >= now - windowMs})

\* C18 Metrics consistency (P11): for every event log and window, getMetrics
\* returns as submitted, completed and failed the numbers of job-submitted,
\* job-completed and job-failed entries of the window, and failureRate =
\* failed / (completed + failed), or 0 when completed + failed = 0; the rate
\* does not depend on submitted and lies in [0, 1].
C18_MetricsConsistency ==
    \A windowMs \in MetricsWindows :
        LET m == getMetrics(events, now, windowMs)
            c == InWindow("job-completed", windowMs)
            f == InWindow("job-failed", windowMs)
        IN /\ m.submitted = InWindow("job-submitted", windowMs)
           /\ m.completed = c
           /\ m.failed = f
           /\ m.failureRate.den > 0
           /\ IF c + f = 0 THEN m.failureRate.num = 0
              ELSE m.failureRate.num * (c + f) = f * m.failureRate.den
           /\ 0 <= m.failureRate.num
           /\ m.failureRate.num <= m.failureRate.den

\* C18: a window holds two job-failed entries, one job-completed entry and
\* no job-submitted entry, and the rate is 2/3
C18_Witness ==
    LET m == getMetrics(events, now, 1) IN
    /\ m.submitted = 0
    /\ m.completed = 1
    /\ m.failed = 2
    /\ m.failureRate.num * 3 = 2 * m.failureRate.den

----------------------------------------------------------------------------
\* the entries of the log with a timestamp >= now - windowMs
Recent(windowMs) ==
    LET S == {e \in DOMAIN events : e.timestamp >= now - windowMs}
    IN [e \in S |-> events[e]]

\* C19 Metrics window: getMetrics(windowMs) takes into account exactly the
\* entries whose timestamp is >= now - windowMs, for every windowMs >= 0: it
\* returns what it returns for the log of those entries alone under a window
\* that holds every entry, so that an entry at exactly now - windowMs counts
\* and no older entry has any effect.
C19_MetricsWindow ==
    \A windowMs \in MetricsWindows :
        getMetrics(events, now, windowMs) = getMetrics(Recent(windowMs), now, now + 1)

\* C19: with window 1, a job-completed entry logged exactly 1 ms ago counts
\* and a job-failed entry logged 2 ms ago does not
C19_Witness ==
    /\ \E e \in DOMAIN events : e.action = "job-completed" /\ e.timestamp = now - 1
    /\ \E e \in DOMAIN events : e.action = "job-failed" /\ e.timestamp = now - 2
    /\ getMetrics(events, now, 1).completed = 1
    /\ getMetrics(events, now, 1).failed = 0

----------------------------------------------------------------------------
\* the timestamps of the entries of a job with this action in the window
TimesInWindow(action, id, windowMs) ==
    {e.timestamp : e \in {x \in DOMAIN events :
                             /\ x.action = action
                             /\ "jobId" \in DOMAIN x.body
                             /\ x.body.jobId = id
                             /\ x.timestamp >= now - windowMs}}

Latest(T) == CHOOSE t \in T : \A u \in T : u <= t

\* the jobs with both a job-claimed and a job-completed entry in the window
PairedInWindow(windowMs) ==
    {id \in JobIds : /\ TimesInWindow("job-claimed", id, windowMs) # {}
                     /\ TimesInWindow("job-completed", id, windowMs) # {}}

RECURSIVE TotalProcessingTime(_, _)
TotalProcessingTime(ids, windowMs) ==
    IF ids = {} THEN 0
    ELSE LET id == CHOOSE x \in ids : TRUE
         IN Latest(TimesInWindow("job-completed", id, windowMs))
                - Latest(TimesInWindow("job-claimed", id, windowMs))
                + TotalProcessingTime(ids \ {id}, windowMs)

\* C20 Average processing time: avgProcessingTimeMs is the mean, over the
\* jobs with both a job-claimed and a job-completed entry inside the window,
\* of the time from the (latest) claim to the completion; it is null when
\* there is no such job, so a job claimed before the window and completed
\* inside it contributes nothing; and in the runs of the API and the workers
\* it is never negative.
C20_AvgProcessingTime ==
    \A windowMs \in MetricsWindows :
        LET avg == getMetrics(events, now, windowMs).avgProcessingTimeMs
            paired == PairedInWindow(windowMs)
        IN IF paired = {} THEN avg = Undefined
           ELSE /\ avg # Undefined
                /\ avg.count = Cardinality(paired)
                /\ avg.sum = TotalProcessingTime(paired, windowMs)
                /\ avg.sum >= 0

\* C20: a job was claimed 1 ms ago and is completed now: the window 0 holds
\* its completion only and the average is null, the window 1 holds both and
\* the average is 1 ms
C20_Witness ==
    /\ getMetrics(events, now, 0).completed = 1
    /\ getMetrics(events, now, 0).avgProcessingTimeMs = Undefined
    /\ getMetrics(events, now, 1).avgProcessingTimeMs = [sum |-> 1, count |-> 1]

----------------------------------------------------------------------------
\* C21 Alerting: Observer.log emits an alert if and only if the logged action
\* is job-failed and the failure rate over the default window, with the new
\* entry counted, is strictly greater than FAILURE_RATE_THRESHOLD; the alert
\* reports F = failed and T = completed + failed of that window. Logging any
\* other action emits none.
C21_Alerting ==
    [][ret'.op = "log" =>
          LET c == InWindow("job-completed", DEFAULT_METRICS_WINDOW_MS)'
              f == InWindow("job-failed", DEFAULT_METRICS_WINDOW_MS)'
          IN IF /\ ret'.entry.action = "job-failed"
                /\ f * FAILURE_RATE_THRESHOLD_DEN > FAILURE_RATE_THRESHOLD_NUM * (c + f)
             THEN alerts' = Append(alerts, [failed |-> f, total |-> c + f])
             ELSE alerts' = alerts]_vars

\* C21: from the empty log, one job-completed and two job-failed entries were
\* logged; the first job-failed (rate 1/2) emitted no alert and the second
\* emitted the alert with F/T = 2/3
C21_Witness ==
    /\ ret.op = "log"
    /\ ret.entry.action = "job-failed"
    /\ calls = 3
    /\ InWindow("job-completed", DEFAULT_METRICS_WINDOW_MS) = 1
    /\ InWindow("job-failed", DEFAULT_METRICS_WINDOW_MS) = 2
    /\ alerts = <<[failed |-> 2, total |-> 3]>>

----------------------------------------------------------------------------
\* the entry Observer.log writes at time t for the API
ApiEntry(t, action, body) ==
    [timestamp |-> t, type |-> "log", action |-> action, body |-> body]

\* C22 POST /bird: a request whose name is missing or not a string gets 400
\* and never reaches the queue (no job record, no index entry, no
\* job-submitted or job-duplicate entry); a request that creates a job or
\* resets a failed one gets 201 and exactly one job-submitted entry {jobId,
\* name}; a request for an existing non-failed job gets 200 and exactly one
\* job-duplicate entry {jobId, name, currentStatus}, currentStatus being the
\* status the job had when submitJob found it, and the queue still holds the
\* one unchanged record for that id.
C22_PostBird ==
    [][/\ (api.pc = "idle" /\ calls' = calls + 1) =>
            LET req == api'.req
                id == toJobId(req.name)
            IN
            /\ \A e \in NewEntries : e.action \notin {"job-submitted", "job-duplicate"}
            /\ req.kind # "string" =>
                   /\ api'.pc = "idle"
                   /\ api'.status = 400
                   /\ jobs' = jobs
                   /\ queueIndex' = queueIndex
            /\ (req.kind = "string" /\ req.name # << >>) =>
                   /\ api'.pc = "respond"
                   /\ api'.isDuplicate = (id \in DOMAIN jobs /\ jobs[id].status # "failed")
                   /\ id \in DOMAIN jobs'
                   /\ api'.job = jobs'[id]
                   /\ api'.isDuplicate => jobs' = jobs /\ queueIndex' = queueIndex
       /\ (api.pc = "respond" /\ api'.pc = "idle") =>
            LET job == api.job IN
            /\ jobs' = jobs
            /\ queueIndex' = queueIndex
            /\ IF api.isDuplicate
               THEN /\ api'.status = 200
                    /\ events' = AddEntry(events,
                                     ApiEntry(now, "job-duplicate",
                                              [jobId |-> job.id, name |-> job.name,
                                               currentStatus |-> job.status]))
               ELSE /\ api'.status = 201
                    /\ events' = AddEntry(events,
                                     ApiEntry(now, "job-submitted",
                                              [jobId |-> job.id, name |-> job.name]))]_vars

\* C22: a first request created a job (201, job-submitted) and a second one
\* for the same id, made while a worker was processing it, was answered 200
\* with a job-duplicate entry whose currentStatus is processing
C22_Witness ==
    /\ api.pc = "idle"
    /\ api.status = 200
    /\ \E e \in DOMAIN events : e.action = "job-submitted"
    /\ \E e \in DOMAIN events :
           /\ e.action = "job-duplicate"
           /\ e.body.currentStatus = "processing"
           /\ e.body.jobId \in DOMAIN jobs

\* C22: a request without a name was answered 400 and the queue is empty
C22_Rejected ==
    /\ api.status = 400
    /\ api.req.kind = "missing"
    /\ jobs = EmptyTable
    /\ queueIndex = EmptyTable

----------------------------------------------------------------------------
\* C23 GET /bird?name=n returns 200 with the job's body if and only if a job
\* with id canonical(n) exists and its status is completed at the time of the
\* request; for a missing, queued, processing or failed job it returns 404;
\* and it never changes the jobs table or the index.
C23_GetBird ==
    [][(api'.req # Undefined /\ api'.req.kind = "query" /\ calls' = calls + 1) =>
          LET name == api'.req.name
              id == toJobId(name)
              completed == id \in DOMAIN jobs /\ jobs[id].status = "completed"
          IN
          /\ api'.status = 200 <=> completed
          /\ completed => api'.job.body = jobs[id].body /\ api'.job.id = id
          /\ (name # << >> /\ ~completed) => api'.status = 404
          /\ jobs' = jobs
          /\ queueIndex' = queueIndex]_vars

\* C23: GET /bird was answered 200 with the body a worker produced for the job
C23_Witness ==
    /\ api.req # Undefined
    /\ api.req.kind = "query"
    /\ api.status = 200
    /\ api.job.body \in Results
    /\ jobs[api.job.id].status = "completed"

\* C23: GET /bird was answered 404 for a job that is being processed
C23_NotCompleted ==
    /\ api.req # Undefined
    /\ api.req.kind = "query"
    /\ api.status = 404
    /\ toJobId(api.req.name) \in DOMAIN jobs
    /\ jobs[toJobId(api.req.name)].status = "processing"

----------------------------------------------------------------------------
\* C24 Store failure in a worker tick: if a queue or observer operation
\* raises a store error during a tick (for example claimJob fails), the worker
\* still schedules its next tick after POLL_INTERVAL_MS; a store error never
\* terminates the worker's polling loop.
C24_StoreFailure ==
    [][\A w \in WorkerIds : ClaimStoreError(w) => workers'[w].pc = "poll"]_vars

----------------------------------------------------------------------------
\* the tables after all the writes of a transaction
Committed(writes) == ApplyWrites([jobs |-> jobs, queueIndex |-> queueIndex], writes)

\* C25 No partial state: for submitJob creating or resetting a job, claimJob
\* and retryJob, either the job-record write and the index write both take
\* effect or neither does; if the store fails, the caller receives the error
\* and the jobs table and the index are exactly as before the call.
C25_NoPartialState ==
    [][calls' = calls + 1 =>
          /\ ret'.op = "error" =>
                 /\ ret'.error
                 /\ jobs' = jobs
                 /\ queueIndex' = queueIndex
          /\ ret'.op = "submit" =>
                 LET c == Committed(submitJobWrites(jobs, queueIndex, ret'.name, now)) IN
                 /\ jobs' = c.jobs
                 /\ queueIndex' = c.queueIndex
                 /\ ~ret'.isDuplicate =>
                        /\ jobs'[ret'.job.id] = ret'.job
                        /\ indexKey(Whole(now), ret'.job.id) \in DOMAIN queueIndex'
          /\ ret'.op = "claim" =>
                 LET c == Committed(claimJobWrites(jobs, queueIndex, now)) IN
                 /\ jobs' = c.jobs
                 /\ queueIndex' = c.queueIndex
                 /\ ret'.job # Undefined =>
                        /\ jobs'[ret'.job.id] = ret'.job
                        /\ LeastKey(queueIndex) \notin DOMAIN queueIndex'
          /\ (ret'.op = "retry" /\ ret'.id \in DOMAIN jobs) =>
                 LET c == Committed(retryJobWrites(jobs, queueIndex, ret'.id, ret'.next)) IN
                 /\ jobs' = c.jobs
                 /\ queueIndex' = c.queueIndex
                 /\ jobs'[ret'.id] = ret'.job
                 /\ indexKey(ret'.next, ret'.id) \in DOMAIN queueIndex']_vars

\* C25: the index write of a retryJob threw after the job-record write
C25_Witness ==
    /\ ret.op = "error"
    /\ ret.of = "retry"
    /\ ret.failAt = 2
    /\ \E id \in DOMAIN jobs : jobs[id].status = "processing"

----------------------------------------------------------------------------
\* the timestamp an index key was written with
KeyTime(key) ==
    CHOOSE t \in IndexTimes : \E id \in JobIds : key = indexKey(Whole(t), id)

\* the first k keys of the index Q
RECURSIVE FirstKeys(_, _)
FirstKeys(Q, k) ==
    IF k = 0 \/ DOMAIN Q = {} THEN {}
    ELSE {LeastKey(Q)} \cup FirstKeys(Remove(Q, LeastKey(Q)), k - 1)

\* the tables after k consecutive claims at time t
RECURSIVE ClaimTimes(_, _, _, _)
ClaimTimes(J, Q, t, k) ==
    IF k = 0 THEN [jobs |-> J, queueIndex |-> Q]
    ELSE ClaimTimes(claimJob(J, Q, t).jobs, claimJob(J, Q, t).queueIndex, t, k - 1)

\* a claim inspects only the least index key: none and no mutation when the
\* index is empty or the head's timestamp is greater than now; the orphan
\* entry deleted and none when the head points to a missing record, even if a
\* later entry is eligible; otherwise the head entry removed, the job written
\* with status processing and returned
ClaimInspectsHead ==
    (ret'.op = "claim" /\ calls' = calls + 1) =>
        IF DOMAIN queueIndex = {} \/ KeyTime(LeastKey(queueIndex)) > now
        THEN /\ ret'.job = Undefined
             /\ jobs' = jobs
             /\ queueIndex' = queueIndex
        ELSE LET head == LeastKey(queueIndex)
                 id == queueIndex[head]
             IN /\ queueIndex' = Remove(queueIndex, head)
                /\ IF id \notin DOMAIN jobs
                   THEN /\ ret'.job = Undefined
                        /\ jobs' = jobs
                   ELSE /\ ret'.job = [jobs[id] EXCEPT !.status = "processing"]
                        /\ jobs' = Put(jobs, id, ret'.job)

\* k consecutive claims on an index whose first k entries are orphans (all of
\* them due, when dueOnly) remove exactly these k entries
OrphansCleared(dueOnly) ==
    \A k \in 1..Cardinality(DOMAIN queueIndex) :
        LET F == FirstKeys(queueIndex, k) IN
        (\A key \in F :
             /\ queueIndex[key] \notin DOMAIN jobs
             /\ dueOnly => KeyTime(key) <= now)
        => /\ ClaimTimes(jobs, queueIndex, now, k).jobs = jobs
           /\ ClaimTimes(jobs, queueIndex, now, k).queueIndex
                  = [x \in DOMAIN queueIndex \ F |-> queueIndex[x]]

\* C26 (as stated) claimJob inspects only the least index key: it returns none
\* without any mutation when the index is empty or when the head's timestamp
\* is greater than now; when the head points to a missing job record it
\* deletes exactly that orphan entry and returns none (even if a later entry
\* is eligible); otherwise it atomically removes the head entry, writes the
\* job with status processing and returns it. After k consecutive claims on
\* an index whose first k entries are orphans, all k orphans are removed.
C26_ClaimHeadAnyOrphans ==
    [][ClaimInspectsHead /\ OrphansCleared(FALSE)]_vars

\* C26 (amended) the same, for k consecutive claims on an index whose first k
\* entries are orphans with timestamps not greater than now.
C26_ClaimHead ==
    [][ClaimInspectsHead /\ OrphansCleared(TRUE)]_vars

\* C26: two consecutive claims removed one orphan entry each and returned
\* none, while a due entry of an existing job waits behind them
C26_Witness ==
    /\ ret.op = "claim"
    /\ ret.orphans = 2
    /\ ret.job = Undefined
    /\ \E key \in DOMAIN queueIndex :
           queueIndex[key] \in DOMAIN jobs /\ KeyTime(key) <= now

----------------------------------------------------------------------------
\* the jobs whose worker stopped after the claim
StuckIds == {workers[w].job.id : w \in {x \in WorkerIds : /\ workers[x].pc = "stopped"
                                                          /\ workers[x].job # Undefined}}

\* C27 Stuck processing: a job that has been claimed and whose worker stops
\* before calling complete, retry or fail stays in status processing with no
\* index entry in every later step; no later claim by any worker returns it,
\* and a resubmission of its name is answered as a duplicate without
\* re-enqueuing it.
C27_StuckProcessing ==
    [][\A id \in StuckIds :
           /\ jobs[id].status = "processing"
           /\ EntriesOf(id) = {}
           /\ jobs'[id] = jobs[id]
           /\ EntriesIn(queueIndex', id) = {}
           /\ \A w \in WorkerIds : Claimed(w) => workers'[w].job.id # id
           /\ (api.pc = "idle" /\ api'.pc = "respond" /\ api'.job.id = id) =>
                  /\ api'.isDuplicate
                  /\ api'.job = jobs[id]]_vars

\* C27: a worker stopped with the job it claimed, the other worker is polling
\* and a resubmission of the job's name has been answered as a duplicate
C27_Witness ==
    \E id \in StuckIds :
        /\ jobs[id].status = "processing"
        /\ \E w \in WorkerIds : workers[w].pc = "poll"
        /\ api.pc = "respond"
        /\ api.isDuplicate
        /\ api.job.id = id
        /\ now > StartTime

----------------------------------------------------------------------------
\* C28 Backoff: computeBackoff(r) = now + 2^(r+1) * BASE_DELAY_MS + jitter
\* with 0 <= jitter < BASE_DELAY_MS; for every r >= 0 the result is strictly
\* greater than now, and for a fixed jitter and clock it is strictly
\* increasing in r; with a jitter of half of BASE_DELAY_MS,
\* computeBackoff(2) - now = 8.5 * BASE_DELAY_MS (8500 for 1000).
C28_Backoff ==
    /\ \A r \in 0..MaxRetryCount : \A jitter \in Jitters :
           LET b == computeBackoff(r, now, jitter) IN
           /\ jitter.ms >= 0
           /\ jitter.ms < BASE_DELAY_MS
           /\ b = [ms |-> now + 2^(r + 1) * BASE_DELAY_MS + jitter.ms,
                   half |-> jitter.half]
           /\ NumGreater(b, now)
           /\ NumLess(b, computeBackoff(r + 1, now, jitter))
    /\ BASE_DELAY_MS = 1 => computeBackoff(2, now, Half(0)) = Half(now + 8)
    /\ \A e \in DOMAIN events :
           e.action = "job-retry" =>
               \E jitter \in Jitters :
                   e.body.nextAvailableAt
                       = [ms |-> e.timestamp + 2^e.body.retryCount * BASE_DELAY_MS
                                    + jitter.ms,
                          half |-> jitter.half]

\* C28: a worker computed the backoff of a first failure with a jitter of
\* half a millisecond: the retry is due 2.5 * BASE_DELAY_MS after the failure
C28_Witness ==
    \E e \in DOMAIN events :
        /\ e.action = "job-retry"
        /\ e.body.retryCount = 1
        /\ e.body.nextAvailableAt = Half(e.timestamp + 2 * BASE_DELAY_MS)
        /\ e.timestamp > StartTime

----------------------------------------------------------------------------
\* 10^n
RECURSIVE Pow10(_)
Pow10(n) == IF n = 0 THEN 1 ELSE 10 * Pow10(n - 1)

\* whole timestamps of [0, 10^W - 1]: the ends of the range, the values around
\* a change of the number of digits, and the values around the clock
SampleTimes ==
    {t \in {0, 1, 2, 9, 10, 11, 19, 20, 21, Pow10(TIMESTAMP_PAD_LENGTH) - 2,
            Pow10(TIMESTAMP_PAD_LENGTH) - 1, now, now + 1} :
        t <= Pow10(TIMESTAMP_PAD_LENGTH) - 1}

\* job ids, one of them a prefix of another
SampleIds == JobIds \cup {<<97>>, << >>}

\* indexKey is monotone on whole timestamps of [0, 10^W - 1]: the keys are
\* ordered as the pairs (timestamp, id), numeric then lexicographic
KeyOrderIsPairOrder ==
    \A t1, t2 \in SampleTimes : \A i1, i2 \in SampleIds :
        StrLess(indexKey(Whole(t1), i1), indexKey(Whole(t2), i2))
            <=> (t1 < t2 \/ (t1 = t2 /\ StrLess(i1, i2)))

\* the timestamp claimJob parses from an index key is the availableAt of the
\* job record the entry points to
ParsedIsAvailableAt ==
    \A key \in DOMAIN queueIndex :
        /\ queueIndex[key] \in DOMAIN jobs
        /\ Whole(parseInt(slice(key, TIMESTAMP_PAD_LENGTH)))
               = jobs[queueIndex[key]].availableForProcessingAt

\* C29 Index key encoding: for all whole timestamps t1, t2 in [0, 10^W - 1]
\* and all job ids i1, i2, indexKey(t1, i1) < indexKey(t2, i2) in
\* lexicographic order if and only if (t1, i1) < (t2, i2) in (numeric,
\* lexicographic) order; and for every index entry, the timestamp that
\* claimJob parses from the first W characters of the key equals the
\* availableAt stored in the job record it points to.
C29_IndexKeyEncoding ==
    /\ KeyOrderIsPairOrder
    /\ ParsedIsAvailableAt

----------------------------------------------------------------------------
\* the number of places of the sequence s that hold e
Occurrences(s, e) == Cardinality({i \in 1..Len(s) : s[i] = e})

\* C30 getTrace(jobId) returns exactly the logged events whose body.jobId
\* equals jobId, each once, with non-decreasing timestamps; events without a
\* jobId (worker-start, api-request) never appear in any trace, and getTrace
\* does not modify the event log.
C30_GetTrace ==
    [][ret'.op = "trace" =>
          LET s == ret'.result
              id == ret'.id
          IN
          /\ \A e \in DOMAIN events :
                 Occurrences(s, e) = IF "jobId" \in DOMAIN e.body /\ e.body.jobId = id
                                     THEN events[e] ELSE 0
          /\ \A i \in 1..Len(s) :
                 /\ s[i] \in DOMAIN events
                 /\ s[i].action \notin {"worker-start", "api-request"}
          /\ \A i, j \in 1..Len(s) : i < j => s[i].timestamp <= s[j].timestamp
          /\ events' = events]_vars

\* C30: getTrace returned the two entries of a job, logged at different
\* times, from a log that also holds an entry without a jobId
C30_Witness ==
    /\ ret.op = "trace"
    /\ Len(ret.result) = 2
    /\ ret.result[1].timestamp < ret.result[2].timestamp
    /\ \E e \in DOMAIN events : "jobId" \notin DOMAIN e.body

----------------------------------------------------------------------------
\* the number of entries with one of these actions that worker w wrote
WrittenBy(w, actions) ==
    SumOver(events, {e \in DOMAIN events :
                        /\ e.action \in actions
                        /\ "workerId" \in DOMAIN e.body
                        /\ e.body.workerId = w})

\* C31 A worker logs worker-start exactly once, before its first claim; a
\* tick in which claimJob returns none changes no job record and no index
\* entry, writes no event, and schedules the next tick; each worker has at
\* most one tick pending or running at any time (it holds a claimed job
\* without a written outcome only while that one tick runs).
C31_WorkerTick ==
    [][\A w \in WorkerIds :
          /\ WrittenBy(w, {"worker-start"}) = IF workers[w].pc = "start" THEN 0 ELSE 1
          /\ workers[w].pc = "start" => WrittenBy(w, {"job-claimed"}) = 0
          /\ WrittenBy(w, {"job-claimed"})
                 - WrittenBy(w, {"job-completed", "job-retry", "job-failed"})
                 = IF workers[w].pc = "processing" THEN 1 ELSE 0
          /\ ((Poll(w) \/ WorkerStart(w))
                 /\ claimJob(jobs, queueIndex, now).claimed = Undefined) =>
                 /\ jobs' = jobs
                 /\ queueIndex' = queueIndex
                 /\ workers'[w] = [pc |-> "poll", job |-> Undefined]
                 /\ events' = IF workers[w].pc = "poll" THEN events
                              ELSE AddEntry(events,
                                            ApiEntry(now, "worker-start",
                                                     [workerId |-> w]))]_vars

\* C31: both workers have started and wait for their next tick while the
\* only index entry is a retried job that is not due: a tick finds nothing
C31_Witness ==
    /\ \A w \in WorkerIds : workers[w].pc = "poll" /\ WrittenBy(w, {"worker-start"}) = 1
    /\ DOMAIN queueIndex # {}
    /\ claimJob(jobs, queueIndex, now).claimed = Undefined
    /\ now > StartTime

----------------------------------------------------------------------------
\* the job has reached a terminal status
Terminal(id) == id \in DOMAIN jobs /\ jobs[id].status \in {"completed", "failed"}

\* the clock of the model has reached its horizon before the job, waiting for
\* a retry, is due
NotDueAtHorizon(id) ==
    /\ now = StartTime + MaxTicks
    /\ id \in DOMAIN jobs
    /\ jobs[id].status = "queued"
    /\ NumGreater(jobs[id].availableForProcessingAt, now)

\* C32 Progress: with fair worker ticks, a clock that keeps advancing and a
\* processor that always returns, and no store failure or worker crash, every
\* job that is submitted eventually reaches status completed or failed,
\* whatever other jobs are in the queue (up to the horizon of the clock: a
\* retried job that is not due when the clock of the model stops is waiting).
\* As the jobs table only grows, it is stated for all submitted jobs at once:
\* again and again every job submitted so far is completed or failed.
C32_Progress ==
    []<>(\A id \in DOMAIN jobs : Terminal(id) \/ NotDueAtHorizon(id))

\* C32: a job was retried, became due behind the clock and was completed,
\* while another job is in the queue
C32_Witness ==
    \E id \in DOMAIN jobs :
        /\ jobs[id].status = "completed"
        /\ jobs[id].retryCount = 1
        /\ \E other \in DOMAIN jobs : other # id

----------------------------------------------------------------------------
\* the workers that have claimed a job and not yet written its outcome
Processing(id) ==
    {w \in WorkerIds : workers[w].pc = "processing" /\ workers[w].job.id = id}

\* C33 Mutual exclusion of processing: for every interleaving of the workers
\* and the submitters, at any time at most one worker is between having
\* claimed job j and having written its outcome for j (complete, retry or
\* fail); no job is handed to the external processor by two workers at once.
C33_MutualExclusion ==
    \A id \in JobIds : Cardinality(Processing(id)) <= 1

\* C33: both workers are processing, one of them a job that was retried
C33_Witness ==
    /\ \A w \in WorkerIds : workers[w].pc = "processing"
    /\ \E w \in WorkerIds : workers[w].job.retryCount = 1
    /\ \A id \in JobIds : Cardinality(Processing(id)) = 1

----------------------------------------------------------------------------
\* C34 Index consistency under normal operation: when the queue is driven
\* only by submissions of the admission surface and by worker ticks
\* (complete, retry and fail called only by the worker that claimed the job,
\* on that job), every reachable state has exactly one index entry for each
\* queued job, none for any processing, completed or failed job, and no index
\* entry that points to a missing job record.
C34_IndexConsistencyNormal ==
    /\ \A id \in DOMAIN jobs :
           Cardinality(EntriesOf(id)) = IF jobs[id].status = "queued" THEN 1 ELSE 0
    /\ \A key \in DOMAIN queueIndex : queueIndex[key] \in DOMAIN jobs

\* C34: a retried job and a job that was not retried are queued with one
\* entry each, after a worker's claim
C34_Witness ==
    /\ \E id \in DOMAIN jobs : jobs[id].status = "queued" /\ jobs[id].retryCount = 1
    /\ \E id \in DOMAIN jobs : jobs[id].status = "queued" /\ jobs[id].retryCount = 0
    /\ Cardinality(DOMAIN queueIndex) = 2
    /\ \E e \in DOMAIN events : e.action = "job-claimed"

----------------------------------------------------------------------------
\* C35 Only a processor failure triggers retry-or-fail: if the processor
\* succeeds and queue.complete has committed, a subsequent failure of the
\* observer write of job-completed does not cause the worker to call retry or
\* fail for that job; the job stays completed with the processor's result.
C35_OnlyProcessorFailure ==
    [][\A w \in WorkerIds : \A body \in Results :
           (\E jitter \in Jitters : CompletedLogStoreError(w, body, jitter)) =>
               LET id == workers[w].job.id IN
               /\ jobs'[id].status = "completed"
               /\ jobs'[id].body = body
               /\ jobs'[id].retryCount = workers[w].job.retryCount
               /\ queueIndex' = queueIndex
               /\ \A e \in NewEntries : e.action \notin {"job-retry", "job-failed"}]_vars

----------------------------------------------------------------------------
(* Two request handlers that submit the same canonical id. A handler calls *)
(* queue.submitJob synchronously, so each call is one step of the API      *)
(* process and the two calls run in either order, with the clock free to   *)
(* advance between them. While the pair is pending, ret holds the two      *)
(* names, the record's status and the number of the id's index entries     *)
(* when the requests arrived, and the isDuplicate each finished call       *)
(* returned.                                                               *)

HandlerIds == {1, 2}

\* the pairs of names with one canonical id
NamePairs == {p \in Names \X Names : toJobId(p[1]) = toJobId(p[2])}

\* two requests arrive; neither handler has called the queue yet
HandlersArrive(names) ==
    LET jobId == toJobId(names[1]) IN
    /\ ret.op # "handlers"
    /\ ret' = [op |-> "handlers", names |-> names, id |-> jobId,
               pre |-> IF jobId \in DOMAIN jobs THEN jobs[jobId].status ELSE "none",
               entries |-> Cardinality(EntriesOf(jobId)),
               isDuplicate |-> EmptyTable]
    /\ UNCHANGED <<jobs, queueIndex, now, events, alerts, workers, api, calls,
                   outstanding, attempts, produced>>

\* handler h runs queue.submitJob({name}) to its end
HandlerSubmits(h) ==
    /\ ret.op = "handlers"
    /\ h \notin DOMAIN ret.isDuplicate
    /\ LET r == submitJob(jobs, queueIndex, ret.names[h], now) IN
       /\ jobs' = r.jobs
       /\ queueIndex' = r.queueIndex
       /\ outstanding' = IF r.isDuplicate THEN outstanding ELSE outstanding \ {r.job.id}
       /\ attempts' = IF r.isDuplicate THEN attempts ELSE Put(attempts, r.job.id, 0)
       /\ ret' = [ret EXCEPT !.isDuplicate = Put(ret.isDuplicate, h, r.isDuplicate)]
    /\ now' = now
    /\ QueueFrame

SubmitNext ==
    \/ QueueNext
    \/ Tick
    \/ \E names \in NamePairs : HandlersArrive(names)
    \/ \E h \in HandlerIds : HandlerSubmits(h)

SubmitSpec == Init /\ [][SubmitNext]_vars

----------------------------------------------------------------------------
\* C36 Concurrent submissions: when two submitJob calls whose names have the
\* same canonical id start while no record exists or the record is failed,
\* then in every order of the two calls exactly one returns isDuplicate =
\* false and the other isDuplicate = true, and afterwards there is exactly
\* one job record and exactly one index entry for that id.
C36_ConcurrentSubmissions ==
    (/\ ret.op = "handlers"
     /\ ret.pre \in {"none", "failed"}
     /\ DOMAIN ret.isDuplicate = HandlerIds)
        => /\ Cardinality({h \in HandlerIds : ~ret.isDuplicate[h]}) = 1
           /\ Cardinality({h \in HandlerIds : ret.isDuplicate[h]}) = 1
           /\ ret.id \in DOMAIN jobs
           /\ Cardinality(EntriesOf(ret.id)) = 1

====
